---- MODULE Spec2Model ----
(***************************************************************************)
(* Editable-grid synchronisation of the Expense-Tracker application.       *)
(*                                                                         *)
(* The state is that of one editable table (BaseEditableTable and one of   *)
(* the tabs built on it), the cache entry of the table's sheet             *)
(* (SheetCacheService through CachedGoogleSheetsService) and the data rows *)
(* of that sheet on the remote store.  Row and column indices are 0-based  *)
(* as in the code; TLA+ sequences are 1-based, so grid row r is grid[r+1]. *)
(*                                                                         *)
(* Three tables are specified over this state: Spec is MonthlyDataTab of   *)
(* ui/tabs, SpecOld the MonthlyDataTab of backup_old_tabs, and             *)
(* SpecAccounts is AccountsTab with AccountService and AccountRepository.  *)
(* The other specifications exercise the services without a table:        *)
(* SpecDelete is the multi-row delete of CachedGoogleSheetsService,        *)
(* SpecCache is SheetCacheService under its own operations on one entry,   *)
(* SpecKeys the same service addressed by display names, SpecFile its      *)
(* cache file under save and load, SpecThreads its lock under loads and    *)
(* clears run by several threads, and SpecServe the rows it serves.        *)
(* SpecLock is SpecThreads with the row operations and a fair scheduler,   *)
(* SpecCreate the creates of AccountRepository.  SpecConfirm is the commit *)
(* handler of the table in two steps, around the save, and SpecConnect the *)
(* monthly table with the connections of its item-changed signal.          *)
(***************************************************************************)
EXTENDS Integers, Sequences, FiniteSets, TLC

(***************************************************************************)
(* Bounds of the model.                                                    *)
(***************************************************************************)
MaxRows == 3
MaxServerRows == 2
MaxSteps == 5
MaxCreated == 5

(***************************************************************************)
(* Column configuration: column 0 is a required text column whose default  *)
(* is empty (Description), column 1 an optional editable drop-down whose   *)
(* default is empty (Category).  A text cell reports its edits through     *)
(* on_table_item_changed and a drop-down through on_dropdown_changed; the  *)
(* row index bound to a drop-down is taken to be the row it sits in.       *)
(* Cell values are strings; " Tea" differs from "Tea" only by leading      *)
(* white space, so that str.strip() is not the identity.                   *)
(***************************************************************************)
Cols == {0, 1}
TextCols == {0}
DropdownCols == {1}
RequiredCols == {0}
Vals == {"", "Tea", " Tea"}
DefaultRow == <<"", "">>
ServerRow == <<"Tea", "Tea">>
BlankRow == <<"", "">>

VARIABLES
    grid,                   \* data_table: the rows shown, each a tuple of cell texts
    pending_changes_rows,   \* set of row indices with pending changes
    changed_cells,          \* set of <<row, col>> that differ from the original
    original_values,        \* dict (row, col) -> value
    server_row_count,       \* number of data rows that came from the server
    refresh_scheduled,      \* a QTimer.singleShot(refresh_data) is outstanding
    cache,                  \* cache entry of the sheet: [cached, rows]
    remote,                 \* data rows of the sheet on the remote store
    accounts_cache,         \* AccountService._accounts_cache: [fresh, accts]
    cache_data,             \* SheetCacheService.cache_data["data"]: sheet_key -> entry
    cache_file,             \* content of the cache file on disk
    backup_file,            \* content of the .json.backup file on disk
    lock,                   \* holder of SheetCacheService._lock
    threads,                \* the position and locals of each running thread
    confirm_enabled,        \* confirm_button.isEnabled()
    connections,            \* handlers connected to data_table.itemChanged
    steps,                  \* number of operations performed so far
    added_rows,             \* history: rows made by add_new_row since the last load or commit
    last                    \* history: the operation that produced this state

vars == <<grid, pending_changes_rows, changed_cells, original_values,
          server_row_count, refresh_scheduled, cache, remote, accounts_cache,
          cache_data, cache_file, backup_file, lock, threads,
          confirm_enabled, connections,
          steps, added_rows, last>>

\* the cache service as a whole: its map of entries, its files, its lock
storeVars == <<cache_data, cache_file, backup_file, lock, threads>>

\* the widgets of a table beside its grid: the confirm button and the
\* connections of the itemChanged signal
uiVars == <<confirm_enabled, connections>>

tableVars == <<grid, pending_changes_rows, changed_cells, original_values,
               server_row_count>>

(***************************************************************************)
(* Helpers on sequences and sets.                                          *)
(***************************************************************************)
Max(a, b) == IF a >= b THEN a ELSE b

RowIdx(g) == 0 .. (Len(g) - 1)

\* del rows[index] for one 0-based index
RemoveAt(s, i) == [k \in 1 .. (Len(s) - 1) |-> IF k <= i THEN s[k] ELSE s[k + 1]]

\* the largest element of a non-empty set of integers
SetMax(S) == CHOOSE m \in S : \A n \in S : n <= m

\* the elements of S from the highest to the lowest: sorted(S, reverse=True)
RECURSIVE SortedDesc(_)
SortedDesc(S) == IF S = {} THEN <<>>
                 ELSE <<SetMax(S)>> \o SortedDesc(S \ {SetMax(S)})

\* sorted(S): ascending
RECURSIVE SortedAsc(_)
SortedAsc(S) == IF S = {} THEN <<>>
                ELSE SortedAsc(S \ {SetMax(S)}) \o <<SetMax(S)>>

\* the elements of a list
Elements(s) == {s[i] : i \in DOMAIN s}

\* every order in which a Python set may be iterated
Orders(S) == {o \in [1 .. Cardinality(S) -> S] :
                 \A i, j \in 1 .. Cardinality(S) : i # j => o[i] # o[j]}

\* str.strip()
Strip(v) == IF v = " Tea" THEN "Tea" ELSE v

(***************************************************************************)
(* BaseEditableTable helpers.                                              *)
(***************************************************************************)
\* get_cell_value(row, col); "" when the item does not exist
get_cell_value(g, row, col) ==
    IF row \in RowIdx(g) THEN g[row + 1][col + 1] ELSE ""

\* original_values.get((row, col), "")
OriginalOf(orig, row, col) ==
    IF <<row, col>> \in DOMAIN orig THEN orig[<<row, col>>] ELSE ""

\* check_cell_changed: current value differs from the stored original
check_cell_changed(g, orig, row, col) ==
    get_cell_value(g, row, col) # OriginalOf(orig, row, col)

\* validate_cell_change: required fields may not be blank; the custom
\* validators of the text columns reject blank input as well
validate_cell_change(col, value) ==
    ~ (col \in RequiredCols /\ Strip(value) = "")

\* store_original_values: the dict is rebuilt from the whole table
store_original_values(g) ==
    [p \in (RowIdx(g) \X Cols) |-> g[p[1] + 1][p[2] + 1]]

\* a test for new rows that takes the first unsaved row for a saved one
is_new_row_Above(row, src) == row > src

\* is_new_row
is_new_row(row, src) == row >= src

\* the stripped cell texts of one row, as collected for a write
RowData(g, row) ==
    [c \in 1 .. Cardinality(Cols) |-> Strip(get_cell_value(g, row, c - 1))]

NoOrig == [p \in {} |-> ""]

\* the record kept of the last operation: its name and outcome, the cell it
\* was about, the rows it was about, the batch it built, and the value of
\* server_row_count when it started
Last(op, result, row, col, rows, plan) ==
    [op |-> op, result |-> result, row |-> row, col |-> col,
     rows |-> rows, plan |-> plan, src |-> server_row_count, phase |-> 0]

\* where an edit stands in a run of edits of one cell: 1 when it takes the
\* cell away from its original value, 2 when the edit after that brings it
\* back, 3 when the edit after that takes it away again, 0 otherwise
EditPhase(row, col, value) ==
    LET base == IF <<row, col>> \in DOMAIN original_values
                THEN original_values[<<row, col>>] ELSE ""
        old == grid[row + 1][col + 1]
        same == last.op = "edit" /\ last.row = row /\ last.col = col
    IN IF old = base /\ value # base
       THEN (IF same /\ last.phase = 2 THEN 3 ELSE 1)
       ELSE IF old # base /\ value = base /\ same /\ last.phase \in {1, 3}
            THEN 2
            ELSE 0

\* one more operation of a session of at most MaxSteps operations
Tick ==
    /\ steps < MaxSteps
    /\ steps' = steps + 1

(***************************************************************************)
(* The remote store: the data rows below the header row.                   *)
(***************************************************************************)
\* values().batchUpdate: each update writes one sheet row; sheet row n is
\* data row n - 2; a write below the last row leaves blank rows in between
RECURSIVE RemoteWrite(_, _)
RemoteWrite(rows, plan) ==
    IF plan = <<>> THEN rows
    ELSE LET u == Head(plan)
             i == u.target - 2
             padded == [k \in 1 .. Max(Len(rows), i + 1) |->
                           IF k <= Len(rows) THEN rows[k] ELSE BlankRow]
             written == IF i >= 0 THEN [padded EXCEPT ![i + 1] = u.values]
                        ELSE rows
         IN RemoteWrite(written, Tail(plan))

\* delete_multiple_rows: one deleteDimension request per row, bottom up
RECURSIVE DeleteDesc(_, _)
DeleteDesc(rows, idxs) ==
    IF idxs = <<>> THEN rows
    ELSE LET i == Head(idxs)
         IN DeleteDesc(IF 0 <= i /\ i < Len(rows) THEN RemoveAt(rows, i) ELSE rows,
                       Tail(idxs))

\* sorted(row_numbers, reverse=True) of a list
RECURSIVE sorted_reverse(_)
sorted_reverse(s) ==
    IF s = <<>> THEN <<>>
    ELSE LET m == SetMax({s[i] : i \in DOMAIN s})
             k == CHOOSE i \in DOMAIN s : s[i] = m
         IN <<m>> \o sorted_reverse(RemoveAt(s, k - 1))

\* the data rows left when the deleteDimension requests for the sheet rows
\* row_nums are applied one after the other: sheet row n is data row n - 2
ApplyDeleteRequests(rows, row_nums) ==
    DeleteDesc(rows, [i \in DOMAIN row_nums |-> row_nums[i] - 2])

\* a multi-row delete that issues its requests in the order of its input
delete_multiple_rows_InputOrder(rows, row_numbers, ok) ==
    IF row_numbers = <<>>
    THEN [success |-> TRUE, requests |-> <<>>, rows |-> rows]
    ELSE [success  |-> ok,
          requests |-> row_numbers,
          rows     |-> IF ok THEN ApplyDeleteRequests(rows, row_numbers) ELSE rows]

\* GoogleSheetsService.delete_multiple_rows: whether it reports success, the
\* requests of its one batch, and the data rows afterwards.  ok is whether
\* the batch call succeeds; nothing is asked of the sheet for an empty list.
delete_multiple_rows(rows, row_numbers, ok) ==
    IF row_numbers = <<>>
    THEN [success |-> TRUE, requests |-> <<>>, rows |-> rows]
    ELSE [success  |-> ok,
          requests |-> sorted_reverse(row_numbers),
          rows     |-> IF ok
                       THEN ApplyDeleteRequests(rows, sorted_reverse(row_numbers))
                       ELSE rows]

(***************************************************************************)
(* SheetCacheService / CachedGoogleSheetsService.                          *)
(***************************************************************************)
\* the header row of the sheet
SheetHeaders == <<"Description", "Category">>

\* _calculate_data_hash: the MD5 digest of the JSON text of [headers] + rows,
\* represented by the list that is serialised (MD5 taken as injective)
calculate_data_hash(headers, rows) == <<headers>> \o rows

\* no entry for the sheet
NotCached == [cached |-> FALSE, rows |-> <<>>, row_count |-> 0,
              headers |-> <<>>, data_hash |-> <<>>]

\* AccountService before its first refresh: no accounts held, nothing fresh
NoAccounts == [fresh |-> FALSE, accts |-> <<>>]

\* _create_empty_cache: the "data" map with no entry
EmptyData == [k \in {} |-> NotCached]

\* no file at the path
NoFile == [state |-> "absent", data |-> EmptyData]

\* SheetCacheService.__init__ with no cache file on disk: the empty cache,
\* the lock free, no thread inside the service
\* the widgets as setup_ui leaves them: the confirm button enabled,
\* itemChanged connected to on_table_item_changed once
UiInit ==
    /\ confirm_enabled = TRUE
    /\ connections = 1

StoreInit ==
    /\ cache_data = EmptyData
    /\ cache_file = NoFile
    /\ backup_file = NoFile
    /\ lock = "free"
    /\ threads = <<>>

\* cache_sheet_data
cache_sheet_data(rows) ==
    [cached |-> TRUE, rows |-> rows, row_count |-> Len(rows),
     headers |-> SheetHeaders,
     data_hash |-> calculate_data_hash(SheetHeaders, rows)]

\* update_row_in_cache: refused when the sheet is not cached or the index
\* is not below the number of cached rows; a negative index counts from the
\* end of the list and raises when it is out of range
update_row_in_cache(c, row_index, row_data) ==
    IF ~ c.cached \/ row_index >= Len(c.rows) \/ row_index < 0 - Len(c.rows)
    THEN c
    ELSE LET pos == IF row_index >= 0 THEN row_index + 1
                    ELSE Len(c.rows) + row_index + 1
             rows == [c.rows EXCEPT ![pos] = row_data]
         IN [c EXCEPT !.rows = rows,
                      !.data_hash = calculate_data_hash(c.headers, rows)]

\* an append that makes the entry when there is none
add_row_to_cache_Creates(c, row_data) ==
    IF ~ c.cached THEN cache_sheet_data(<<row_data>>)
    ELSE LET rows == Append(c.rows, row_data)
         IN [c EXCEPT !.rows = rows, !.row_count = Len(rows),
                      !.data_hash = calculate_data_hash(c.headers, rows)]

\* add_row_to_cache: refused when the sheet is not cached
add_row_to_cache(c, row_data) ==
    IF ~ c.cached THEN c
    ELSE LET rows == Append(c.rows, row_data)
         IN [c EXCEPT !.rows = rows, !.row_count = Len(rows),
                      !.data_hash = calculate_data_hash(c.headers, rows)]

\* clear_cache: the cache is the empty structure again
clear_cache == NotCached

\* a delete that takes the rows out of the entry and leaves its row_count
delete_rows_from_cache_StaleCount(c, row_indices) ==
    IF ~ c.cached THEN c
    ELSE LET rows == DeleteDesc(c.rows, sorted_reverse(row_indices))
         IN [c EXCEPT !.rows = rows,
                      !.data_hash = calculate_data_hash(c.headers, rows)]

\* delete_rows_from_cache: indices out of range are passed over
delete_rows_from_cache(c, row_indices) ==
    IF ~ c.cached THEN c
    ELSE LET rows == DeleteDesc(c.rows, sorted_reverse(row_indices))
         IN [c EXCEPT !.rows = rows, !.row_count = Len(rows),
                      !.data_hash = calculate_data_hash(c.headers, rows)]

\* CachedGoogleSheetsService.delete_multiple_rows: the delete on the sheet
\* and, when it succeeded, the same rows taken out of the cache.  ok is
\* whether the batch call succeeds.
cached_delete_multiple_rows(c, rem, row_numbers, ok) ==
    LET out == delete_multiple_rows(rem, row_numbers, ok)
        cache_indices == SelectSeq([i \in DOMAIN row_numbers |-> row_numbers[i] - 2],
                                   LAMBDA idx : idx >= 0)
    IN [success  |-> out.success,
        requests |-> out.requests,
        remote   |-> out.rows,
        cache    |-> IF out.success /\ cache_indices # <<>>
                     THEN delete_rows_from_cache(c, cache_indices) ELSE c]

\* _update_cache_from_batch_updates
RECURSIVE update_cache_from_batch_updates(_, _)
update_cache_from_batch_updates(c, plan) ==
    IF plan = <<>> THEN c
    ELSE LET u == Head(plan)
             row_num == u.target - 2
         IN update_cache_from_batch_updates(
                IF row_num >= 0 THEN update_row_in_cache(c, row_num, u.values) ELSE c,
                Tail(plan))

\* get_data_as_dataframe(use_cache): the rows returned and the cache afterwards.
\* readOk is whether the remote read succeeds (a failed read yields no rows).
get_data_as_dataframe(c, rem, use_cache, readOk) ==
    IF use_cache /\ c.cached
    THEN [rows |-> c.rows, cache |-> c]
    ELSE LET fetched == IF readOk THEN rem ELSE <<>>
         IN [rows  |-> fetched,
             cache |-> IF fetched # <<>> THEN cache_sheet_data(fetched) ELSE c]

(***************************************************************************)
(* MonthlyDataTab (ui/tabs): the table of one month's expenses.            *)
(***************************************************************************)
\* show_empty_table
ShowEmptyTable ==
    /\ grid' = <<>>
    /\ server_row_count' = 0
    /\ pending_changes_rows' = {}
    /\ changed_cells' = {}
    /\ original_values' = NoOrig

\* populate_table_with_data
MonthlyPopulate(rows) ==
    /\ server_row_count' = Len(rows)
    /\ grid' = rows
    /\ original_values' = store_original_values(rows)
    /\ pending_changes_rows' = {}
    /\ changed_cells' = {}

\* load_data
MonthlyLoadBody(readOk) ==
    LET df == get_data_as_dataframe(cache, remote, TRUE, readOk)
    IN /\ cache' = df.cache
       /\ IF df.rows = <<>> THEN ShowEmptyTable ELSE MonthlyPopulate(df.rows)
       /\ UNCHANGED <<remote, accounts_cache, storeVars, uiVars>>

MonthlyLoadData(readOk) ==
    /\ Tick
    /\ (cache.cached => readOk)
    /\ MonthlyLoadBody(readOk)
    /\ added_rows' = {}
    /\ UNCHANGED refresh_scheduled
    /\ last' = Last("load", IF readOk THEN "ok" ELSE "fail", -1, -1, {}, <<>>)

\* the deferred refresh_data started by a delete
MonthlyDeferredRefresh(readOk) ==
    /\ Tick
    /\ refresh_scheduled
    /\ (cache.cached => readOk)
    /\ refresh_scheduled' = FALSE
    /\ MonthlyLoadBody(readOk)
    /\ added_rows' = {}
    /\ last' = Last("refresh", IF readOk THEN "ok" ELSE "fail", -1, -1, {}, <<>>)

(***************************************************************************)
(* BaseEditableTable operations.                                           *)
(***************************************************************************)
\* add_new_row
AddNewRowBody(default_row) ==
    LET new_row_index == Len(grid)
    IN /\ grid' = Append(grid, default_row)
       /\ original_values' =
              [p \in (DOMAIN original_values) \cup ({new_row_index} \X Cols) |->
                  IF p[1] = new_row_index THEN default_row[p[2] + 1]
                  ELSE original_values[p]]
       /\ pending_changes_rows' = pending_changes_rows \cup {new_row_index}
       /\ UNCHANGED <<changed_cells, server_row_count>>

add_new_row ==
    /\ Tick
    /\ Len(grid) < MaxRows
    /\ AddNewRowBody(DefaultRow)
    /\ added_rows' = added_rows \cup {Len(grid)}
    /\ UNCHANGED <<refresh_scheduled, cache, remote, accounts_cache, storeVars, uiVars>>
    /\ last' = Last("add", "ok", Len(grid), -1, {}, <<>>)

\* a tracking that records the changed cell but forgets to mark its row
TrackCell_RowNotMarked(g, row, col, value) ==
    IF ~ validate_cell_change(col, value)
    THEN UNCHANGED <<pending_changes_rows, changed_cells>>
    ELSE IF check_cell_changed(g, original_values, row, col)
         THEN /\ changed_cells' = changed_cells \cup {<<row, col>>}
              /\ UNCHANGED pending_changes_rows
         ELSE /\ changed_cells' = changed_cells \ {<<row, col>>}
              /\ pending_changes_rows' =
                     IF \E c \in Cols : <<row, c>> \in changed_cells'
                     THEN pending_changes_rows
                     ELSE pending_changes_rows \ {row}

\* a tracking that skips validate_cell_change
TrackCell_TrackRejected(g, row, col, value) ==
    IF check_cell_changed(g, original_values, row, col)
    THEN /\ changed_cells' = changed_cells \cup {<<row, col>>}
         /\ pending_changes_rows' = pending_changes_rows \cup {row}
    ELSE /\ changed_cells' = changed_cells \ {<<row, col>>}
         /\ pending_changes_rows' =
                IF \E c \in Cols : <<row, c>> \in changed_cells'
                THEN pending_changes_rows
                ELSE pending_changes_rows \ {row}

\* the tracking done by on_table_item_changed and on_dropdown_changed once
\* the cell holds its new text
TrackCell(g, row, col, value) ==
    IF ~ validate_cell_change(col, value)
    THEN UNCHANGED <<pending_changes_rows, changed_cells>>
    ELSE IF check_cell_changed(g, original_values, row, col)
         THEN /\ changed_cells' = changed_cells \cup {<<row, col>>}
              /\ pending_changes_rows' = pending_changes_rows \cup {row}
         ELSE /\ changed_cells' = changed_cells \ {<<row, col>>}
              /\ pending_changes_rows' =
                     IF \E c \in Cols : <<row, c>> \in changed_cells'
                     THEN pending_changes_rows
                     ELSE pending_changes_rows \ {row}

\* on_table_item_changed: the item already holds the text the user typed
on_table_item_changed(row, col, value) ==
    /\ Tick
    /\ row \in RowIdx(grid)
    /\ col \in TextCols
    /\ value # grid[row + 1][col + 1]
    /\ grid' = [grid EXCEPT ![row + 1][col + 1] = value]
    /\ TrackCell(grid', row, col, value)
    /\ UNCHANGED <<original_values, server_row_count, refresh_scheduled,
                   cache, remote, accounts_cache, storeVars, uiVars, added_rows>>
    /\ last' = [Last("edit",
                     IF validate_cell_change(col, value) THEN "accepted" ELSE "rejected",
                     row, col, {}, <<>>) EXCEPT !.phase = EditPhase(row, col, value)]

\* on_dropdown_changed: the combo box already shows the text chosen or typed
on_dropdown_changed(row, col, text) ==
    /\ Tick
    /\ row \in RowIdx(grid)
    /\ col \in DropdownCols
    /\ text # grid[row + 1][col + 1]
    /\ grid' = [grid EXCEPT ![row + 1][col + 1] = text]
    /\ TrackCell(grid', row, col, text)
    /\ UNCHANGED <<original_values, server_row_count, refresh_scheduled,
                   cache, remote, accounts_cache, storeVars, uiVars, added_rows>>
    /\ last' = [Last("edit",
                     IF validate_cell_change(col, text) THEN "accepted" ELSE "rejected",
                     row, col, {}, <<>>) EXCEPT !.phase = EditPhase(row, col, text)]

\* a batch with a write for every row of the grid, pending or not
MonthlyPlan_EveryRow(order, current_server_rows) ==
    LET newCount == Cardinality({r \in pending_changes_rows : r >= current_server_rows})
    IN [i \in 1 .. Len(grid) |->
           [row    |-> i - 1,
            target |-> IF i - 1 < current_server_rows
                       THEN i + 1
                       ELSE current_server_rows + newCount + 1,
            values |-> RowData(grid, i - 1)]]

\* a batch whose new rows are placed without counting the header row
MonthlyPlan_NoHeaderRow(order, current_server_rows) ==
    LET newCount == Cardinality({r \in pending_changes_rows : r >= current_server_rows})
    IN [i \in 1 .. Len(order) |->
           [row    |-> order[i],
            target |-> IF order[i] < current_server_rows
                       THEN order[i] + 2
                       ELSE current_server_rows + newCount,
            values |-> RowData(grid, order[i])]]

\* MonthlyDataTab.save_changes_to_server: the batch built from the pending rows,
\* visited in the order the set yields them
MonthlyPlan(order, current_server_rows) ==
    LET newCount == Cardinality({r \in pending_changes_rows : r >= current_server_rows})
    IN [i \in 1 .. Len(order) |->
           [row    |-> order[i],
            target |-> IF order[i] < current_server_rows
                       THEN order[i] + 2
                       ELSE current_server_rows + newCount + 1,
            values |-> RowData(grid, order[i])]]

\* confirm_pending_changes on success
ConfirmSuccess ==
    /\ pending_changes_rows' = {}
    /\ changed_cells' = {}
    /\ original_values' = store_original_values(grid)
    /\ server_row_count' = Len(grid)
    /\ UNCHANGED grid

\* confirm_pending_changes with MonthlyDataTab.save_changes_to_server
MonthlyConfirm(order, readOk, writeOk) ==
    /\ Tick
    /\ order \in Orders(pending_changes_rows)
    /\ IF pending_changes_rows = {}
       THEN \* nothing pending: the handler returns at once
            /\ readOk /\ writeOk
            /\ UNCHANGED <<tableVars, remote, cache, added_rows>>
            /\ last' = Last("confirm", "nothing", -1, -1, {}, <<>>)
       ELSE /\ (cache.cached => readOk)
            /\ LET df == get_data_as_dataframe(cache, remote, TRUE, readOk)
                   plan == MonthlyPlan(order, Len(df.rows))
               IN /\ IF writeOk
                     THEN /\ remote' = RemoteWrite(remote, plan)
                          /\ cache' = update_cache_from_batch_updates(df.cache, plan)
                          /\ ConfirmSuccess
                          /\ added_rows' = {}
                     ELSE /\ remote' = remote
                          /\ cache' = df.cache
                          /\ UNCHANGED <<tableVars, added_rows>>
                  /\ last' = Last("confirm", IF writeOk THEN "success" ELSE "failure",
                                  -1, -1, pending_changes_rows, plan)
    /\ UNCHANGED <<refresh_scheduled, accounts_cache, storeVars, uiVars>>

\* _delete_rows_internal
delete_rows_internal(selected_rows, deleteOk) ==
    /\ Tick
    /\ selected_rows # {}
    /\ selected_rows \subseteq RowIdx(grid)
    /\ LET new_rows == {r \in selected_rows : is_new_row(r, server_row_count)}
           existing_rows == selected_rows \ new_rows
       IN /\ grid' = DeleteDesc(grid, SortedDesc(new_rows))
          /\ IF existing_rows = {}
             THEN /\ deleteOk
                  /\ UNCHANGED <<remote, cache, server_row_count>>
                  /\ last' = Last("delete", "local", -1, -1, selected_rows, <<>>)
             ELSE \E order \in Orders(existing_rows) :
                  \E sheet_row_numbers \in {[i \in 1 .. Len(order) |-> order[i] + 2]} :
                  \E del \in {cached_delete_multiple_rows(cache, remote,
                                                          sheet_row_numbers, deleteOk)} :
                     /\ remote' = del.remote
                     /\ cache' = del.cache
                     /\ server_row_count' =
                            IF del.success
                            THEN server_row_count - Len(sheet_row_numbers)
                            ELSE server_row_count
                     /\ last' = Last("delete",
                                     IF del.success THEN "success" ELSE "failure",
                                     -1, -1, selected_rows,
                                     <<[call |-> "delete_multiple_rows",
                                        row_numbers |-> sheet_row_numbers]>>)
    /\ refresh_scheduled' = TRUE
    /\ UNCHANGED <<pending_changes_rows, changed_cells, original_values, added_rows,
                   accounts_cache, storeVars, uiVars>>

(***************************************************************************)
(* The specification.                                                      *)
(***************************************************************************)
Init ==
    /\ grid = <<>>
    /\ pending_changes_rows = {}
    /\ changed_cells = {}
    /\ original_values = NoOrig
    /\ server_row_count = 0
    /\ refresh_scheduled = FALSE
    /\ \E n \in 0 .. MaxServerRows : remote = [k \in 1 .. n |-> ServerRow]
    /\ cache \in {NotCached, cache_sheet_data(remote)}
    /\ accounts_cache = NoAccounts
    /\ StoreInit
    /\ UiInit
    /\ steps = 0
    /\ last = [op |-> "init", result |-> "ok", row |-> -1, col |-> -1,
               rows |-> {}, plan |-> <<>>, src |-> 0, phase |-> 0]
    /\ added_rows = {}

Next ==
    \/ \E readOk \in BOOLEAN : MonthlyLoadData(readOk)
    \/ \E readOk \in BOOLEAN : MonthlyDeferredRefresh(readOk)
    \/ add_new_row
    \/ \E row \in 0 .. (MaxRows - 1), col \in Cols, value \in Vals :
           on_table_item_changed(row, col, value)
    \/ \E row \in 0 .. (MaxRows - 1), col \in Cols, text \in Vals :
           on_dropdown_changed(row, col, text)
    \/ \E order \in UNION {Orders(S) : S \in SUBSET (0 .. (MaxRows - 1))},
          readOk \in BOOLEAN, writeOk \in BOOLEAN :
           MonthlyConfirm(order, readOk, writeOk)
    \/ \E selected_rows \in SUBSET (0 .. (MaxRows - 1)), deleteOk \in BOOLEAN :
           delete_rows_internal(selected_rows, deleteOk)

Spec == Init /\ [][Next]_vars

TypeOK ==
    /\ Len(grid) <= MaxRows
    /\ Len(remote) <= MaxRows + MaxServerRows

(***************************************************************************)
(* MonthlyDataTab of backup_old_tabs: the earlier table of one month's     *)
(* expenses.  It is a QWidget of its own, not a BaseEditableTable, and it  *)
(* talks to GoogleSheetsService directly, so every read is a remote read.  *)
(* Column 0 stands for its required text columns (Date, Description) and   *)
(* column 1 for its Payment Method drop-down.                              *)
(***************************************************************************)
\* GoogleSheetsService.get_data_as_dataframe: no rows when the read fails
direct_get_data_as_dataframe(rem, readOk) == IF readOk THEN rem ELSE <<>>

\* show_empty_table_for_new_sheet
show_empty_table_for_new_sheet ==
    /\ server_row_count' = 0
    /\ grid' = <<>>
    /\ pending_changes_rows' = {}
    /\ changed_cells' = {}
    /\ original_values' = NoOrig

\* populate_table_with_data
populate_table_with_data(df) ==
    /\ server_row_count' = Len(df)
    /\ grid' = df
    /\ pending_changes_rows' = {}
    /\ changed_cells' = {}
    /\ original_values' = store_original_values(df)

\* load_sheet_data, reading the sheet as it is after the handler's writes
load_sheet_data(rem, readOk) ==
    LET df == direct_get_data_as_dataframe(rem, readOk)
    IN IF df = <<>> THEN show_empty_table_for_new_sheet
       ELSE populate_table_with_data(df)

\* refresh_current_sheet
refresh_current_sheet(readOk) ==
    /\ Tick
    /\ load_sheet_data(remote, readOk)
    /\ added_rows' = {}
    /\ UNCHANGED <<refresh_scheduled, cache, remote, accounts_cache, storeVars, uiVars>>
    /\ last' = Last("load", IF readOk THEN "ok" ELSE "fail", -1, -1, {}, <<>>)

\* add_new_expense_row
add_new_expense_row ==
    /\ Tick
    /\ Len(grid) < MaxRows
    /\ AddNewRowBody(DefaultRow)
    /\ added_rows' = added_rows \cup {Len(grid)}
    /\ UNCHANGED <<refresh_scheduled, cache, remote, accounts_cache, storeVars, uiVars>>
    /\ last' = Last("add", "ok", Len(grid), -1, {}, <<>>)

\* the tracking shared by on_table_item_changed and on_payment_method_changed
OldTrackCell(g, row, col) ==
    IF check_cell_changed(g, original_values, row, col)
    THEN /\ changed_cells' = changed_cells \cup {<<row, col>>}
         /\ pending_changes_rows' = pending_changes_rows \cup {row}
    ELSE /\ changed_cells' = changed_cells \ {<<row, col>>}
         /\ pending_changes_rows' =
                IF \E c \in Cols : <<row, c>> \in changed_cells'
                THEN pending_changes_rows
                ELSE pending_changes_rows \ {row}

\* on_table_item_changed of the old tab: a blank Date or Description is
\* reported and not tracked
OldOnTableItemChanged(row, col, value) ==
    /\ Tick
    /\ row \in RowIdx(grid)
    /\ col \in TextCols
    /\ value # grid[row + 1][col + 1]
    /\ grid' = [grid EXCEPT ![row + 1][col + 1] = value]
    /\ IF Strip(value) = ""
       THEN UNCHANGED <<pending_changes_rows, changed_cells>>
       ELSE OldTrackCell(grid', row, col)
    /\ UNCHANGED <<original_values, server_row_count, refresh_scheduled,
                   cache, remote, accounts_cache, storeVars, uiVars, added_rows>>
    /\ last' = [Last("edit", IF Strip(value) = "" THEN "rejected" ELSE "accepted",
                     row, col, {}, <<>>) EXCEPT !.phase = EditPhase(row, col, value)]

\* on_payment_method_changed: no validation
on_payment_method_changed(row, col, payment_method) ==
    /\ Tick
    /\ row \in RowIdx(grid)
    /\ col \in DropdownCols
    /\ payment_method # grid[row + 1][col + 1]
    /\ grid' = [grid EXCEPT ![row + 1][col + 1] = payment_method]
    /\ OldTrackCell(grid', row, col)
    /\ UNCHANGED <<original_values, server_row_count, refresh_scheduled,
                   cache, remote, accounts_cache, storeVars, uiVars, added_rows>>
    /\ last' = [Last("edit", "accepted", row, col, {}, <<>>)
                    EXCEPT !.phase = EditPhase(row, col, payment_method)]

\* save_all_pending_changes_batch: the batch built from the pending rows in
\* ascending order; a row whose required text is blank is left out
save_all_pending_changes_batch(readOk) ==
    LET df == direct_get_data_as_dataframe(remote, readOk)
        current_server_rows == Len(df)
        rows == SelectSeq(SortedAsc(pending_changes_rows),
                          LAMBDA r : \A c \in RequiredCols : RowData(grid, r)[c + 1] # "")
    IN [i \in 1 .. Len(rows) |->
           [row    |-> rows[i],
            target |-> IF rows[i] >= current_server_rows
                       THEN current_server_rows + 2 + (rows[i] - current_server_rows)
                       ELSE rows[i] + 2,
            values |-> RowData(grid, rows[i])]]

\* confirm_pending_changes of the old tab.  The batch is one remote call: it
\* is "success" when the call succeeds, "failure" when the call fails, and
\* "unsent" when no pending row could be written and no call was made.
OldConfirmPendingChanges(readOk, writeOk) ==
    /\ Tick
    /\ pending_changes_rows # {}
    /\ LET plan == save_all_pending_changes_batch(readOk)
           success == plan # <<>> /\ writeOk
       IN /\ IF success
             THEN /\ remote' = RemoteWrite(remote, plan)
                  /\ server_row_count' = Len(grid)
                  /\ pending_changes_rows' = {}
                  /\ changed_cells' = {}
                  /\ original_values' = store_original_values(grid)
                  /\ added_rows' = {}
             ELSE /\ remote' = remote
                  /\ changed_cells' =
                         {p \in changed_cells :
                             ~ (p[1] \in RowIdx(grid) /\ p[1] \notin pending_changes_rows)}
                  /\ original_values' = store_original_values(grid)
                  /\ UNCHANGED <<pending_changes_rows, server_row_count, added_rows>>
          /\ last' = Last("confirm",
                          IF success THEN "success"
                          ELSE IF plan # <<>> THEN "failure" ELSE "unsent",
                          -1, -1, pending_changes_rows, plan)
    /\ UNCHANGED <<grid, refresh_scheduled, cache, accounts_cache, storeVars, uiVars>>

\* delete_selected_expenses: the selected rows leave the pending set, the
\* local ones leave the table, the others are deleted on the sheet, and the
\* sheet is loaded again at once
delete_selected_expenses(selected_rows, deleteOk, readOk) ==
    /\ Tick
    /\ selected_rows # {}
    /\ selected_rows \subseteq RowIdx(grid)
    /\ LET existing_rows == {r \in selected_rows : ~ is_new_row(r, server_row_count)}
       IN IF existing_rows = {}
          THEN /\ deleteOk
               /\ remote' = remote
               /\ load_sheet_data(remote', readOk)
               /\ last' = Last("delete", "local", -1, -1, selected_rows, <<>>)
          ELSE \E order \in Orders(existing_rows) :
               \E sheet_row_numbers \in {[i \in 1 .. Len(order) |-> order[i] + 2]} :
               \E out \in {delete_multiple_rows(remote, sheet_row_numbers, deleteOk)} :
                  /\ remote' = out.rows
                  /\ load_sheet_data(remote', readOk)
                  /\ last' = Last("delete", IF out.success THEN "success" ELSE "failure",
                                  -1, -1, selected_rows,
                                  <<[call |-> "delete_multiple_rows",
                                     row_numbers |-> sheet_row_numbers]>>)
    /\ added_rows' = {}
    /\ UNCHANGED <<refresh_scheduled, cache, accounts_cache, storeVars, uiVars>>

\* the old tab once constructed: setup_default_values has loaded the sheet
\* of the current month
InitOld ==
    /\ \E n \in 0 .. MaxServerRows : remote = [k \in 1 .. n |-> ServerRow]
    /\ \E readOk \in BOOLEAN :
          LET df == direct_get_data_as_dataframe(remote, readOk)
          IN /\ grid = df
             /\ server_row_count = Len(df)
             /\ original_values = store_original_values(df)
    /\ pending_changes_rows = {}
    /\ changed_cells = {}
    /\ refresh_scheduled = FALSE
    /\ cache = NotCached
    /\ accounts_cache = NoAccounts
    /\ StoreInit
    /\ UiInit
    /\ steps = 0
    /\ last = [op |-> "init", result |-> "ok", row |-> -1, col |-> -1,
               rows |-> {}, plan |-> <<>>, src |-> 0, phase |-> 0]
    /\ added_rows = {}

NextOld ==
    \/ \E readOk \in BOOLEAN : refresh_current_sheet(readOk)
    \/ add_new_expense_row
    \/ \E row \in 0 .. (MaxRows - 1), col \in Cols, value \in Vals :
           OldOnTableItemChanged(row, col, value)
    \/ \E row \in 0 .. (MaxRows - 1), col \in Cols, payment_method \in Vals :
           on_payment_method_changed(row, col, payment_method)
    \/ \E readOk \in BOOLEAN, writeOk \in BOOLEAN :
           OldConfirmPendingChanges(readOk, writeOk)
    \/ \E selected_rows \in SUBSET (0 .. (MaxRows - 1)),
          deleteOk \in BOOLEAN, readOk \in BOOLEAN :
           delete_selected_expenses(selected_rows, deleteOk, readOk)

SpecOld == InitOld /\ [][NextOld]_vars

(***************************************************************************)
(* Accounts: AccountRepository over the "Accounts" sheet, AccountService   *)
(* with its cache of accounts, and AccountsTab, a BaseEditableTable whose  *)
(* rows are accounts.  A sheet row is <<ID, Name, Currency>> and a table   *)
(* row <<Account Name, Currency>>: column 0 is the required text column    *)
(* and column 1 the Currency drop-down; the other columns are left out, so *)
(* all accounts are of one account type.  An account is a record           *)
(* [id, name, cur, active].  The sheet, its cache entry and the account    *)
(* cache are threaded through the calls of one handler as a record         *)
(* w = [cache, remote, ac].                                                *)
(***************************************************************************)
AccountsDefaultRow == <<"", "CAD">>
CurrencyVals == {"", "CAD", "USD"}
ServerAccountNames == <<"Cash", "Rent", "Bank">>

\* the sheet row of the k-th account found at start-up
ServerAccountRow(k) == <<"acc_" \o ToString(k), ServerAccountNames[k], "CAD">>

\* the element of a one-element set; a result that several parts of a
\* definition use is named by binding it in such a set: {e(x) : x \in {v}}
One(S) == CHOOSE x \in S : TRUE

\* the least element of a non-empty set of integers
SetMin(S) == CHOOSE m \in S : \A n \in S : m <= n

\* str.lower() on the account names of the model
Lower(v) ==
    CASE v = "Tea" -> "tea" [] v = "Cash" -> "cash" [] v = "Rent" -> "rent"
      [] v = "Bank" -> "bank" [] OTHER -> v

\* the id given to an account made from a table row: name and time stamp
NewAccountId(account_name) == "acc_" \o Lower(account_name) \o "_" \o ToString(steps)

\* Currency(currency_str), CAD when the text is no currency
ParseCurrency(currency_str) ==
    IF currency_str \in {"CAD", "USD", "EUR"} THEN currency_str ELSE "CAD"

\* the row AccountRepository writes for an account
AccountRow(a) == <<a.id, a.name, a.cur>>

\* dict of accounts by id, kept as a sequence in insertion order
HasId(accts, id) == \E i \in 1 .. Len(accts) : accts[i].id = id

IndexOfId(accts, id) == CHOOSE i \in 1 .. Len(accts) : accts[i].id = id

\* accts[a.id] = a
PutAccount(accts, a) ==
    IF HasId(accts, a.id) THEN [accts EXCEPT ![IndexOfId(accts, a.id)] = a]
    ELSE Append(accts, a)

\* {acc.id: acc for acc in accounts}
RECURSIVE AsDict(_)
AsDict(accounts) ==
    IF accounts = <<>> THEN <<>>
    ELSE PutAccount(AsDict(SubSeq(accounts, 1, Len(accounts) - 1)),
                    accounts[Len(accounts)])

\* {acc.name: acc for acc in accounts}: the id of the last account of each name
ExistingByName(accts) ==
    [n \in {accts[i].name : i \in 1 .. Len(accts)} |->
        accts[SetMax({i \in 1 .. Len(accts) : accts[i].name = n})].id]

\* AccountRepository.get_all_accounts: rows without an ID are skipped and
\* every account read is active
ParseAccounts(rows) ==
    LET kept == SelectSeq(rows, LAMBDA r : r[1] # "")
    IN [i \in 1 .. Len(kept) |->
           [id |-> kept[i][1], name |-> kept[i][2], cur |-> kept[i][3],
            active |-> TRUE]]

repo_get_all_accounts(w, readOk) ==
    One({[accounts |-> ParseAccounts(df.rows), w |-> [w EXCEPT !.cache = df.cache]] :
            df \in {get_data_as_dataframe(w.cache, w.remote, TRUE, readOk)}})

\* CachedGoogleSheetsService.batch_update_sheet_data
batch_update_sheet_data(w, plan, writeOk) ==
    IF writeOk
    THEN [w EXCEPT !.remote = RemoteWrite(w.remote, plan),
                   !.cache = update_cache_from_batch_updates(w.cache, plan)]
    ELSE w

\* AccountRepository.create_account: the row goes below the rows read
repo_create_account(w, a, readOk, writeOk) ==
    One({[ok |-> writeOk,
          w |-> batch_update_sheet_data(
                    [w EXCEPT !.cache = df.cache],
                    <<[row |-> -1, target |-> Len(df.rows) + 2, values |-> AccountRow(a)]>>,
                    writeOk)] :
            df \in {get_data_as_dataframe(w.cache, w.remote, TRUE, readOk)}})

\* AccountRepository.update_account: the first row with the account's ID
repo_update_account(w, a, readOk, writeOk) ==
    One({IF \A i \in 1 .. Len(df.rows) : df.rows[i][1] # a.id
         THEN [ok |-> FALSE, w |-> [w EXCEPT !.cache = df.cache]]
         ELSE [ok |-> writeOk,
               w |-> batch_update_sheet_data(
                         [w EXCEPT !.cache = df.cache],
                         <<[row |-> -1,
                            target |-> (SetMin({i \in 1 .. Len(df.rows) :
                                                   df.rows[i][1] = a.id}) - 1) + 2,
                            values |-> AccountRow(a)]>>,
                         writeOk)] :
            df \in {get_data_as_dataframe(w.cache, w.remote, TRUE, readOk)}})

\* AccountRepository.delete_account: a soft delete, the account read from the
\* sheet is marked inactive and written back
repo_delete_account(w, account_id, readOk, writeOk) ==
    One({IF ~ HasId(r.accounts, account_id) THEN [ok |-> FALSE, w |-> r.w]
         ELSE repo_update_account(
                  r.w,
                  [r.accounts[SetMin({i \in 1 .. Len(r.accounts) :
                                         r.accounts[i].id = account_id})]
                      EXCEPT !.active = FALSE],
                  readOk, writeOk) :
            r \in {repo_get_all_accounts(w, readOk)}})

\* AccountService._refresh_accounts_cache
refresh_accounts_cache(w, readOk) ==
    One({[r.w EXCEPT !.ac = [fresh |-> TRUE, accts |-> AsDict(r.accounts)]] :
            r \in {repo_get_all_accounts(w, readOk)}})

\* AccountService.get_all_accounts: the cache is refreshed when it was never
\* filled or is older than its time to live; the accounts are w.ac.accts of
\* the result
get_all_accounts(w, readOk) ==
    IF ~ w.ac.fresh THEN refresh_accounts_cache(w, readOk) ELSE w

\* AccountService.get_account_by_id: the account is w.ac.accts of the result
get_account_by_id(w, account_id, readOk) ==
    IF ~ HasId(w.ac.accts, account_id) THEN refresh_accounts_cache(w, readOk) ELSE w

\* AccountService.create_account: refused for a blank name and for the name
\* of an active account
create_account(w, a, readOk, writeOk) ==
    IF a.name = "" THEN [ok |-> FALSE, w |-> w]
    ELSE One({IF \E i \in 1 .. Len(w1.ac.accts) :
                     /\ w1.ac.accts[i].active
                     /\ Lower(w1.ac.accts[i].name) = Lower(a.name)
              THEN [ok |-> FALSE, w |-> w1]
              ELSE One({IF r.ok
                        THEN [ok |-> TRUE,
                              w |-> [r.w EXCEPT !.ac.accts = PutAccount(@, a)]]
                        ELSE r :
                           r \in {repo_create_account(w1, a, readOk, writeOk)}}) :
                 w1 \in {get_all_accounts(w, readOk)}})

\* AccountService.update_account
update_account(w, a, readOk, writeOk) ==
    IF a.name = "" THEN [ok |-> FALSE, w |-> w]
    ELSE One({IF ~ HasId(w1.ac.accts, a.id) THEN [ok |-> FALSE, w |-> w1]
              ELSE One({IF r.ok
                        THEN [ok |-> TRUE,
                              w |-> [r.w EXCEPT !.ac.accts = PutAccount(@, a)]]
                        ELSE r :
                           r \in {repo_update_account(w1, a, readOk, writeOk)}}) :
                 w1 \in {get_account_by_id(w, a.id, readOk)}})

\* AccountService.delete_account
delete_account(w, account_id, readOk, writeOk) ==
    One({IF ~ HasId(w1.ac.accts, account_id) THEN [ok |-> FALSE, w |-> w1]
         ELSE One({IF r.ok
                   THEN [ok |-> TRUE,
                         w |-> [r.w EXCEPT
                                   !.ac.accts[IndexOfId(r.w.ac.accts, account_id)].active
                                       = FALSE]]
                   ELSE r :
                      r \in {repo_delete_account(w1, account_id, readOk, writeOk)}}) :
            w1 \in {get_account_by_id(w, account_id, readOk)}})

\* AccountsTab.get_data_from_service: one table row per account of the service
get_data_from_service(w, readOk) ==
    One({[rows |-> [i \in 1 .. Len(w1.ac.accts) |->
                       <<w1.ac.accts[i].name, w1.ac.accts[i].cur>>],
          w |-> w1] :
            w1 \in {get_all_accounts(w, readOk)}})

\* AccountsTab.save_data_to_service, row by row: a row whose
\* name is that of an account known when the save started changes that
\* account, in place, and updates it; any other row creates an account.
\* Each result tells whether a call was made for the row and how it ended.
SaveRow(w, existing_by_name, row, readOk, writeOk) ==
    IF row[1] = "" THEN [ok |-> FALSE, w |-> w]
    ELSE IF row[1] \in DOMAIN existing_by_name
    THEN One({update_account([w EXCEPT !.ac.accts = PutAccount(@, existing_account)],
                             existing_account, readOk, writeOk) :
                 existing_account \in
                     {[w.ac.accts[IndexOfId(w.ac.accts, existing_by_name[row[1]])]
                          EXCEPT !.name = row[1], !.cur = ParseCurrency(row[2])]}})
    ELSE create_account(w, [id |-> NewAccountId(row[1]), name |-> row[1],
                            cur |-> ParseCurrency(row[2]), active |-> TRUE],
                        readOk, writeOk)

RECURSIVE SaveRows(_, _, _, _, _, _)
SaveRows(w, existing_by_name, data, i, readOk, oks) ==
    IF i > Len(data) THEN [w |-> w, results |-> <<>>]
    ELSE One({One({[w |-> rest.w,
                    results |-> <<[row |-> data[i].row, values |-> data[i].values,
                                   sent |-> data[i].values[1] # "", ok |-> r.ok]>>
                                \o rest.results] :
                      rest \in {SaveRows(r.w, existing_by_name, data, i + 1, readOk, oks)}}) :
                 r \in {SaveRow(w, existing_by_name, data[i].values, readOk, oks[i])}})

\* AccountsTab.save_data_to_service: success when at least one row was saved
save_data_to_service(w, data, readOk, oks) ==
    One({One({[w |-> saved.w, results |-> saved.results,
               success |-> \E k \in 1 .. Len(saved.results) : saved.results[k].ok] :
                 saved \in {SaveRows(w1, ExistingByName(w1.ac.accts), data, 1, readOk, oks)}}) :
            w1 \in {get_all_accounts(w, readOk)}})

\* AccountsTab.save_changes_to_server: the stripped rows of the pending set,
\* in the order the set yields them, without the rows that are blank
ChangedData(order) ==
    SelectSeq([i \in 1 .. Len(order) |->
                  [row |-> order[i], values |-> RowData(grid, order[i])]],
              LAMBDA d : \E c \in 1 .. Len(d.values) : d.values[c] # "")

\* AccountsTab.save_changes_to_server: nothing to save is a success; when the
\* save succeeds the table is loaded again (shown is what it then shows)
save_changes_to_server(w, changed_data, readOk, oks) ==
    IF changed_data = <<>>
    THEN [success |-> TRUE, w |-> w, shown |-> grid, results |-> <<>>]
    ELSE One({IF saved.success
              THEN One({[success |-> TRUE, w |-> df.w, shown |-> df.rows,
                         results |-> saved.results] :
                           df \in {get_data_from_service(saved.w, readOk)}})
              ELSE [success |-> FALSE, w |-> saved.w, shown |-> grid,
                    results |-> saved.results] :
                 saved \in {save_data_to_service(w, changed_data, readOk, oks)}})

\* AccountsTab.load_data, as refresh_data calls it: base populate_table_with_data
\* fills the table and clears the two sets; an empty frame only empties the table
AccountsLoadData(readOk) ==
    /\ Tick
    /\ (cache.cached => readOk)
    /\ \E df \in {get_data_from_service(
                      [cache |-> cache, remote |-> remote, ac |-> accounts_cache], readOk)} :
          /\ cache' = df.w.cache
          /\ accounts_cache' = df.w.ac
          /\ UNCHANGED <<storeVars, uiVars>>
          /\ grid' = df.rows
          /\ IF df.rows = <<>>
             THEN UNCHANGED <<pending_changes_rows, changed_cells, added_rows>>
             ELSE /\ pending_changes_rows' = {}
                  /\ changed_cells' = {}
                  /\ added_rows' = {}
    /\ UNCHANGED <<original_values, server_row_count, refresh_scheduled, remote>>
    /\ last' = Last("load", IF readOk THEN "ok" ELSE "fail", -1, -1, {}, <<>>)

\* add_new_row with the column defaults of AccountsTab
AccountsAddNewRow ==
    /\ Tick
    /\ Len(grid) < MaxRows
    /\ AddNewRowBody(AccountsDefaultRow)
    /\ added_rows' = added_rows \cup {Len(grid)}
    /\ UNCHANGED <<refresh_scheduled, cache, remote, accounts_cache, storeVars, uiVars>>
    /\ last' = Last("add", "ok", Len(grid), -1, {}, <<>>)

\* confirm_pending_changes with AccountsTab.save_changes_to_server: the rows
\* are saved one by one; when at least one was saved the pending set is
\* cleared and the table loaded again, and the base class then takes the
\* whole commit for a success
AccountsConfirm(order, readOk, oks) ==
    /\ Tick
    /\ pending_changes_rows # {}
    /\ order \in Orders(pending_changes_rows)
    /\ (cache.cached => readOk)
    /\ \E s \in {save_changes_to_server(
                     [cache |-> cache, remote |-> remote, ac |-> accounts_cache],
                     ChangedData(order), readOk, oks)} :
          /\ cache' = s.w.cache
          /\ remote' = s.w.remote
          /\ accounts_cache' = s.w.ac
          /\ UNCHANGED <<storeVars, uiVars>>
          /\ IF s.success
             THEN /\ grid' = s.shown
                  /\ pending_changes_rows' = {}
                  /\ changed_cells' = {}
                  /\ original_values' = store_original_values(s.shown)
                  /\ server_row_count' = Len(s.shown)
                  /\ added_rows' = {}
             ELSE UNCHANGED <<tableVars, added_rows>>
          /\ last' = Last("confirm", IF s.success THEN "success" ELSE "failure",
                          -1, -1, pending_changes_rows, s.results)
    /\ UNCHANGED refresh_scheduled

\* AccountsTab.delete_selected_rows, one name: the first account of the name
\* is deleted through the service
DeleteByName(w, account_name, readOk, writeOk) ==
    One({IF \A k \in 1 .. Len(w1.ac.accts) : w1.ac.accts[k].name # account_name
         THEN [ok |-> FALSE, w |-> w1]
         ELSE delete_account(
                  w1,
                  w1.ac.accts[SetMin({k \in 1 .. Len(w1.ac.accts) :
                                         w1.ac.accts[k].name = account_name})].id,
                  readOk, writeOk) :
            w1 \in {get_all_accounts(w, readOk)}})

RECURSIVE DeleteAccounts(_, _, _, _, _)
DeleteAccounts(w, accounts_to_delete, i, readOk, oks) ==
    IF i > Len(accounts_to_delete) THEN [w |-> w, success_count |-> 0]
    ELSE One({One({[w |-> rest.w,
                    success_count |-> rest.success_count + (IF r.ok THEN 1 ELSE 0)] :
                      rest \in {DeleteAccounts(r.w, accounts_to_delete, i + 1, readOk, oks)}}) :
                 r \in {DeleteByName(w, accounts_to_delete[i], readOk, oks[i])}})

\* the names in column 0 of the selected rows, without the blank ones
AccountsToDelete(order) ==
    SelectSeq([i \in 1 .. Len(order) |-> get_cell_value(grid, order[i], 0)],
              LAMBDA n : n # "")

\* AccountsTab.delete_selected_rows: the table is loaded again when at least
\* one account was deleted
AccountsDeleteSelectedRows(order, readOk, oks) ==
    /\ Tick
    /\ order # <<>>
    /\ \A i \in 1 .. Len(order) : order[i] \in RowIdx(grid)
    /\ AccountsToDelete(order) # <<>>
    /\ (cache.cached => readOk)
    /\ \E deleted \in {DeleteAccounts(
                           [cache |-> cache, remote |-> remote, ac |-> accounts_cache],
                           AccountsToDelete(order), 1, readOk, oks)} :
          IF deleted.success_count > 0
          THEN \E df \in {get_data_from_service(deleted.w, readOk)} :
                  /\ cache' = df.w.cache
                  /\ remote' = df.w.remote
                  /\ accounts_cache' = df.w.ac
                  /\ UNCHANGED <<storeVars, uiVars>>
                  /\ grid' = df.rows
                  /\ IF df.rows # <<>>
                     THEN /\ pending_changes_rows' = {}
                          /\ changed_cells' = {}
                          /\ added_rows' = {}
                     ELSE UNCHANGED <<pending_changes_rows, changed_cells, added_rows>>
                  /\ last' = Last("delete", "success", -1, -1,
                                  {order[i] : i \in 1 .. Len(order)}, <<>>)
          ELSE /\ cache' = deleted.w.cache
               /\ remote' = deleted.w.remote
               /\ accounts_cache' = deleted.w.ac
               /\ UNCHANGED <<storeVars, uiVars>>
               /\ UNCHANGED <<grid, pending_changes_rows, changed_cells, added_rows>>
               /\ last' = Last("delete", "failure", -1, -1,
                               {order[i] : i \in 1 .. Len(order)}, <<>>)
    /\ UNCHANGED <<original_values, server_row_count, refresh_scheduled>>

\* the account cache outlives its time to live of 300 seconds
AccountsCacheExpires ==
    /\ Tick
    /\ accounts_cache.fresh
    /\ accounts_cache' = [accounts_cache EXCEPT !.fresh = FALSE]
    /\ UNCHANGED <<storeVars, uiVars>>
    /\ UNCHANGED <<tableVars, refresh_scheduled, cache, remote, added_rows>>
    /\ last' = Last("expire", "ok", -1, -1, {}, <<>>)

\* AccountsTab once constructed over a sheet that holds accounts: load_data
\* has read them, the sheet is cached and the account cache is fresh;
\* populate_table_with_data of the base class leaves original_values and
\* server_row_count as the constructor set them
InitAccounts ==
    /\ \E n \in 1 .. MaxServerRows : remote = [k \in 1 .. n |-> ServerAccountRow(k)]
    /\ cache = cache_sheet_data(remote)
    /\ StoreInit
    /\ UiInit
    /\ accounts_cache =
           [fresh |-> TRUE,
            accts |-> [k \in 1 .. Len(remote) |->
                          [id |-> remote[k][1], name |-> remote[k][2],
                           cur |-> remote[k][3], active |-> TRUE]]]
    /\ grid = [k \in 1 .. Len(remote) |-> <<remote[k][2], remote[k][3]>>]
    /\ pending_changes_rows = {}
    /\ changed_cells = {}
    /\ original_values = NoOrig
    /\ server_row_count = 0
    /\ refresh_scheduled = FALSE
    /\ steps = 0
    /\ last = [op |-> "init", result |-> "ok", row |-> -1, col |-> -1,
               rows |-> {}, plan |-> <<>>, src |-> 0, phase |-> 0]
    /\ added_rows = {}

NextAccounts ==
    \/ \E readOk \in BOOLEAN : AccountsLoadData(readOk)
    \/ AccountsAddNewRow
    \/ \E row \in 0 .. (MaxRows - 1), col \in Cols, value \in Vals :
           on_table_item_changed(row, col, value)
    \/ \E row \in 0 .. (MaxRows - 1), col \in Cols, text \in CurrencyVals :
           on_dropdown_changed(row, col, text)
    \/ \E order \in UNION {Orders(S) : S \in SUBSET (0 .. (MaxRows - 1))},
          readOk \in BOOLEAN :
           \E oks \in [1 .. Len(order) -> BOOLEAN] : AccountsConfirm(order, readOk, oks)
    \/ \E order \in UNION {Orders(S) : S \in SUBSET (0 .. (MaxRows - 1))},
          readOk \in BOOLEAN :
           \E oks \in [1 .. Len(order) -> BOOLEAN] :
              AccountsDeleteSelectedRows(order, readOk, oks)
    \/ AccountsCacheExpires

SpecAccounts == InitAccounts /\ [][NextAccounts]_vars

(***************************************************************************)
(* CachedGoogleSheetsService.delete_multiple_rows on its own: a sheet of   *)
(* rows that can be told apart, and lists of sheet row numbers in any      *)
(* order.                                                                  *)
(***************************************************************************)
MaxSheetRows == 6
MaxSelected == 3
MaxDeletes == 2

\* the k-th data row of the sheet
SheetRow(k) == <<"row" \o ToString(k), "Tea">>

\* the lists of row numbers a caller may pass: distinct numbers of data rows
\* (sheet row 1 is the header), in any order
RowNumberLists ==
    UNION {Orders(S) : S \in {T \in SUBSET (2 .. (MaxSheetRows + 1)) :
                                 Cardinality(T) <= MaxSelected}}

SheetsDeleteMultipleRows(row_numbers, ok) ==
    /\ steps < MaxDeletes
    /\ steps' = steps + 1
    /\ \E del \in {cached_delete_multiple_rows(cache, remote, row_numbers, ok)} :
          /\ remote' = del.remote
          /\ cache' = del.cache
          /\ last' = Last("delete_multiple_rows",
                          IF del.success THEN "success" ELSE "failure",
                          -1, -1, row_numbers, del.requests)
    /\ UNCHANGED <<tableVars, refresh_scheduled, accounts_cache, storeVars, uiVars, added_rows>>

InitDelete ==
    /\ \E n \in 0 .. MaxSheetRows : remote = [k \in 1 .. n |-> SheetRow(k)]
    /\ cache \in {NotCached, cache_sheet_data(remote)}
    /\ grid = <<>>
    /\ pending_changes_rows = {}
    /\ changed_cells = {}
    /\ original_values = NoOrig
    /\ server_row_count = 0
    /\ refresh_scheduled = FALSE
    /\ accounts_cache = NoAccounts
    /\ StoreInit
    /\ UiInit
    /\ steps = 0
    /\ last = [op |-> "init", result |-> "ok", row |-> -1, col |-> -1,
               rows |-> <<>>, plan |-> <<>>, src |-> 0, phase |-> 0]
    /\ added_rows = {}

NextDelete ==
    \E row_numbers \in RowNumberLists, ok \in BOOLEAN :
        SheetsDeleteMultipleRows(row_numbers, ok)

SpecDelete == InitDelete /\ [][NextDelete]_vars

(***************************************************************************)
(* SheetCacheService on its own: the entry of one sheet under any sequence *)
(* of its operations.                                                      *)
(***************************************************************************)
MaxCacheRows == 3

\* the rows handed to the cache
CacheRowVals == {SheetRow(1), SheetRow(2)}

\* the row lists handed to cache_sheet_data
CacheRowLists == UNION {[1 .. n -> CacheRowVals] : n \in 0 .. (MaxCacheRows - 1)}

\* the row indices handed to the cache: in range, past the end, and negative
CacheIndices == (0 - MaxCacheRows) .. MaxCacheRows

\* the index lists handed to delete_rows_from_cache: any order, repeats allowed
CacheIndexLists == UNION {[1 .. n -> 0 .. MaxCacheRows] : n \in 0 .. MaxCacheRows}

\* what every operation of the cache leaves alone
CacheFrame ==
    UNCHANGED <<tableVars, refresh_scheduled, remote, accounts_cache, storeVars, uiVars, added_rows>>

CacheStore(rows) ==
    /\ Tick
    /\ cache' = cache_sheet_data(rows)
    /\ last' = Last("cache_sheet_data", "ok", -1, -1, {}, <<>>)
    /\ CacheFrame

CacheUpdateRow(row_index, row_data) ==
    /\ Tick
    /\ cache' = update_row_in_cache(cache, row_index, row_data)
    /\ last' = Last("update_row_in_cache",
                    IF ~ cache.cached \/ row_index >= Len(cache.rows)
                       \/ row_index < 0 - Len(cache.rows)
                    THEN "refused" ELSE "ok",
                    row_index, -1, {}, <<row_data>>)
    /\ CacheFrame

CacheAddRow(row_data) ==
    /\ Tick
    /\ Len(cache.rows) < MaxCacheRows
    /\ cache' = add_row_to_cache(cache, row_data)
    /\ last' = Last("add_row_to_cache", IF cache.cached THEN "ok" ELSE "refused",
                    -1, -1, {}, <<>>)
    /\ CacheFrame

CacheDeleteRows(row_indices) ==
    /\ Tick
    /\ cache' = delete_rows_from_cache(cache, row_indices)
    /\ last' = Last("delete_rows_from_cache", IF cache.cached THEN "ok" ELSE "refused",
                    -1, -1, Elements(row_indices), row_indices)
    /\ CacheFrame

CacheClear ==
    /\ Tick
    /\ cache' = clear_cache
    /\ last' = Last("clear_cache", "ok", -1, -1, {}, <<>>)
    /\ CacheFrame

InitCache ==
    /\ cache = NotCached
    /\ remote = <<>>
    /\ grid = <<>>
    /\ pending_changes_rows = {}
    /\ changed_cells = {}
    /\ original_values = NoOrig
    /\ server_row_count = 0
    /\ refresh_scheduled = FALSE
    /\ accounts_cache = NoAccounts
    /\ StoreInit
    /\ UiInit
    /\ steps = 0
    /\ last = [op |-> "init", result |-> "ok", row |-> -1, col |-> -1,
               rows |-> {}, plan |-> <<>>, src |-> 0, phase |-> 0]
    /\ added_rows = {}

NextCache ==
    \/ \E rows \in CacheRowLists : CacheStore(rows)
    \/ \E row_index \in CacheIndices, row_data \in CacheRowVals :
           CacheUpdateRow(row_index, row_data)
    \/ \E row_data \in CacheRowVals : CacheAddRow(row_data)
    \/ \E row_indices \in CacheIndexLists : CacheDeleteRows(row_indices)
    \/ CacheClear

SpecCache == InitCache /\ [][NextCache]_vars

(***************************************************************************)
(* SheetCacheService with several sheets: the "data" map from sheet key to *)
(* entry, addressed by display names.  A name is the sequence of its       *)
(* characters.                                                             *)
(***************************************************************************)
NameLen == 2

NameChars == {"A", "a", " ", "-"}

\* the display names handed to the cache: they start with a letter
SheetNames == {n \in [1 .. NameLen -> NameChars] : n[1] \in {"A", "a"}}

\* str.lower on one character of NameChars
lower(ch) == IF ch = "A" THEN "a" ELSE ch

\* a key that keeps the letter case of the name
sheet_key_CaseKept(sheet_name) ==
    [i \in DOMAIN sheet_name |-> IF sheet_name[i] = " " THEN "-" ELSE sheet_name[i]]

\* sheet_key = sheet_name.lower().replace(' ', '-')
sheet_key(sheet_name) ==
    [i \in DOMAIN sheet_name |->
        IF lower(sheet_name[i]) = " " THEN "-" ELSE lower(sheet_name[i])]

\* self.cache_data["data"].get(sheet_key): the entry, or none
Entry(data, key) == IF key \in DOMAIN data THEN data[key] ELSE NotCached

\* self.cache_data["data"][sheet_key] = entry
Put(data, key, entry) ==
    [k \in DOMAIN data \cup {key} |-> IF k = key THEN entry ELSE data[k]]

\* the entry cache_sheet_data builds from headers and rows
sheet_entry(headers, rows) ==
    [cached |-> TRUE, rows |-> rows, row_count |-> Len(rows),
     headers |-> headers, data_hash |-> calculate_data_hash(headers, rows)]

\* the headers _fetch_and_cache_sheet gives a sheet it could read nothing of
DefaultHeaders ==
    <<"Date", "Description", "Amount", "Category", "Payment Method", "Notes">>

\* the six operations that take a sheet name, on the whole map: the map
\* afterwards.  arg is the rows, <<row_index, row_data>>, the row_data or the
\* row_indices of the call.
NamedOp(data, op, sheet_name, arg) ==
    LET key == sheet_key(sheet_name)
    IN CASE op = "cache_sheet_data" -> Put(data, key, sheet_entry(SheetHeaders, arg))
         [] op = "update_row_in_cache" ->
                IF key \in DOMAIN data
                THEN Put(data, key, update_row_in_cache(data[key], arg[1], arg[2]))
                ELSE data
         [] op = "add_row_to_cache" ->
                IF key \in DOMAIN data
                THEN Put(data, key, add_row_to_cache(data[key], arg))
                ELSE data
         [] op = "delete_rows_from_cache" ->
                IF key \in DOMAIN data
                THEN Put(data, key, delete_rows_from_cache(data[key], arg))
                ELSE data
         [] OTHER -> data

\* what the call returns: ok is the Boolean returned (for get_sheet_data,
\* whether an entry was returned rather than None), entry the entry returned
NamedResult(data, op, sheet_name, arg) ==
    LET key == sheet_key(sheet_name)
    IN [ok |-> CASE op = "cache_sheet_data" -> TRUE
                 [] op = "update_row_in_cache" ->
                        /\ key \in DOMAIN data
                        /\ arg[1] < Len(data[key].rows)
                        /\ arg[1] >= 0 - Len(data[key].rows)
                 [] OTHER -> key \in DOMAIN data,
        entry |-> IF op = "get_sheet_data" THEN Entry(data, key) ELSE NotCached]

\* what an operation without a return value leaves in the record
NoResult == [ok |-> TRUE, entry |-> NotCached]

\* the record of a call by sheet name
NamedLast(op, sheet_name, arg, result) ==
    [op |-> op, name |-> sheet_name, arg |-> arg, result |-> result]

NamedCall(op, sheet_name, arg) ==
    /\ Tick
    /\ cache_data' = NamedOp(cache_data, op, sheet_name, arg)
    /\ last' = NamedLast(op, sheet_name, arg,
                         NamedResult(cache_data, op, sheet_name, arg))
    /\ UNCHANGED <<tableVars, refresh_scheduled, cache, remote, accounts_cache,
                   cache_file, backup_file, lock, threads, uiVars, added_rows>>

MaxKeyRows == 2

KeyRowLists == {<<>>, <<SheetRow(1)>>}

KeysStore(sheet_name, rows) == NamedCall("cache_sheet_data", sheet_name, rows)

KeysGet(sheet_name) == NamedCall("get_sheet_data", sheet_name, <<>>)

KeysIsCached(sheet_name) == NamedCall("is_sheet_cached", sheet_name, <<>>)

KeysUpdateRow(sheet_name, row_index, row_data) ==
    NamedCall("update_row_in_cache", sheet_name, <<row_index, row_data>>)

KeysAddRow(sheet_name, row_data) ==
    /\ Len(Entry(cache_data, sheet_key(sheet_name)).rows) < MaxKeyRows
    /\ NamedCall("add_row_to_cache", sheet_name, row_data)

KeysDeleteRows(sheet_name, row_indices) ==
    NamedCall("delete_rows_from_cache", sheet_name, row_indices)

\* SheetCacheService.clear_cache: the whole map is the empty structure again
KeysClear ==
    /\ Tick
    /\ cache_data' = EmptyData
    /\ last' = NamedLast("clear_cache", <<>>, <<>>, NoResult)
    /\ UNCHANGED <<tableVars, refresh_scheduled, cache, remote, accounts_cache,
                   cache_file, backup_file, lock, threads, uiVars, added_rows>>

\* _fetch_and_cache_sheet: values is what get_raw_data returns, the rows of
\* the sheet with its header row first, or nothing when the sheet is empty
\* or the remote store cannot be reached
fetch_and_cache_sheet(data, sheet_name, values) ==
    Put(data, sheet_key(sheet_name),
        IF values = <<>> THEN sheet_entry(DefaultHeaders, <<>>)
        ELSE sheet_entry(Head(values), Tail(values)))

\* invalidate_sheet_cache, which is force_refresh_sheet
invalidate_sheet_cache(sheet_name, values) ==
    /\ Tick
    /\ cache_data' = fetch_and_cache_sheet(cache_data, sheet_name, values)
    /\ last' = NamedLast("invalidate_sheet_cache", sheet_name, values, NoResult)
    /\ UNCHANGED <<tableVars, refresh_scheduled, cache, remote, accounts_cache,
                   cache_file, backup_file, lock, threads, uiVars, added_rows>>

\* what get_raw_data returns: nothing, the header row alone, header and a row
FetchedValues == {<<>>, <<SheetHeaders>>, <<SheetHeaders, SheetRow(2)>>}

\* str.upper() on one character of a name
upper(ch) == IF ch = "a" THEN "A" ELSE ch

IsLetter(ch) == ch \in {"A", "a"}

\* str.split('-'): the parts between the hyphens, empty parts included
RECURSIVE split_hyphen(_)
split_hyphen(key) ==
    IF \A i \in DOMAIN key : key[i] # "-" THEN <<key>>
    ELSE LET h == CHOOSE i \in DOMAIN key :
                      key[i] = "-" /\ \A j \in 1 .. (i - 1) : key[j] # "-"
         IN <<SubSeq(key, 1, h - 1)>> \o split_hyphen(SubSeq(key, h + 1, Len(key)))

\* str.capitalize(): the first character upper case, the rest lower case
capitalize(part) ==
    [i \in DOMAIN part |-> IF i = 1 THEN upper(part[i]) ELSE lower(part[i])]

\* str.title(): a letter that follows a non-letter is upper case, any other
\* letter lower case
title(text) ==
    [i \in DOMAIN text |->
        IF i = 1 \/ ~ IsLetter(text[i - 1]) THEN upper(text[i]) ELSE lower(text[i])]

PaymentMethodsKey ==
    <<"p", "a", "y", "m", "e", "n", "t", "-", "m", "e", "t", "h", "o", "d", "s">>

PaymentMethodsName ==
    <<"P", "a", "y", "m", "e", "n", "t", " ", "M", "e", "t", "h", "o", "d", "s">>

\* CachedGoogleSheetsService.get_sheet_names: the display name made from a
\* cache key
display_name(cache_key) ==
    IF cache_key = PaymentMethodsKey THEN PaymentMethodsName
    ELSE LET parts == split_hyphen(cache_key)
         IN IF Len(parts) >= 2
            THEN capitalize(parts[1]) \o <<" ">> \o parts[2]
            ELSE title([i \in DOMAIN cache_key |->
                           IF cache_key[i] = "-" THEN " " ELSE cache_key[i]])

\* CachedGoogleSheetsService.get_sheet_names(use_cache=True): the names made
\* from the cache keys, or what the remote store lists when nothing is cached
get_sheet_names(data, api_names) ==
    IF DOMAIN data # {} THEN {display_name(k) : k \in DOMAIN data} ELSE api_names

ApiNames == {{}, {<<"A", "a">>}}

KeysSheetNames(api_names) ==
    /\ Tick
    /\ last' = NamedLast("get_sheet_names", <<>>,
                         get_sheet_names(cache_data, api_names), NoResult)
    /\ UNCHANGED <<tableVars, refresh_scheduled, cache, remote, accounts_cache,
                   storeVars, uiVars, added_rows>>


InitKeys ==
    /\ StoreInit
    /\ UiInit
    /\ cache = NotCached
    /\ remote = <<>>
    /\ grid = <<>>
    /\ pending_changes_rows = {}
    /\ changed_cells = {}
    /\ original_values = NoOrig
    /\ server_row_count = 0
    /\ refresh_scheduled = FALSE
    /\ accounts_cache = NoAccounts
    /\ steps = 0
    /\ last = NamedLast("init", <<>>, <<>>, NoResult)
    /\ added_rows = {}

NextKeys ==
    \/ \E sheet_name \in SheetNames, rows \in KeyRowLists : KeysStore(sheet_name, rows)
    \/ \E sheet_name \in SheetNames : KeysGet(sheet_name)
    \/ \E sheet_name \in SheetNames : KeysIsCached(sheet_name)
    \/ \E sheet_name \in SheetNames, row_index \in 0 .. 1, row_data \in {SheetRow(2)} :
           KeysUpdateRow(sheet_name, row_index, row_data)
    \/ \E sheet_name \in SheetNames, row_data \in {SheetRow(2)} :
           KeysAddRow(sheet_name, row_data)
    \/ \E sheet_name \in SheetNames, row_indices \in {<<0>>, <<1, 0>>} :
           KeysDeleteRows(sheet_name, row_indices)
    \/ KeysClear
    \/ \E sheet_name \in SheetNames, values \in FetchedValues :
           invalidate_sheet_cache(sheet_name, values)
    \/ \E api_names \in ApiNames : KeysSheetNames(api_names)

SpecKeys == InitKeys /\ [][NextKeys]_vars

(***************************************************************************)
(* SheetCacheService and its file: saving after a change, loading at the   *)
(* start of the program, validating.                                       *)
(***************************************************************************)
\* a cache file that json.dump wrote in full
FileOf(data) == [state |-> "json", data |-> data]

\* a cache file that open(..., 'w') made and json.dump did not finish
PartialFile == [state |-> "partial", data |-> EmptyData]

\* how the write of the new file goes: it succeeds, open() raises and makes
\* no file, or json.dump raises after open() made the file
WriteOutcomes == {"ok", "open_fails", "write_fails"}

\* _save_cache: the cache file and the backup file afterwards.  The file,
\* when there is one, is renamed to the backup; the new file is written;
\* when that raised and a backup exists, the backup is renamed to the file.
save_cache(data, file, backup, outcome) ==
    LET backup1 == IF file.state # "absent" THEN file ELSE backup
    IN IF outcome = "ok"
       THEN [file |-> FileOf(data), backup |-> backup1]
       ELSE IF backup1.state # "absent"
            THEN [file |-> backup1, backup |-> NoFile]
            ELSE [file |-> IF outcome = "write_fails" THEN PartialFile ELSE NoFile,
                  backup |-> backup1]

\* _load_cache: the map held after loading; a missing file and a file that
\* json.load rejects both give the empty cache
load_cache(file) == IF file.state = "json" THEN file.data ELSE EmptyData

\* validate_cache_integrity: the sheets it reports an issue for
validate_cache_integrity(data) ==
    {k \in DOMAIN data : Len(data[k].rows) # data[k].row_count}

\* the sheets of the file model
FileSheetNames == {<<"a", "a">>, <<"a", "-">>}

\* entries as a file can hold them: as the service wrote them, with rows
\* changed after the hash was taken, with a row_count that is off
FileEntries ==
    {sheet_entry(SheetHeaders, <<SheetRow(1)>>),
     [sheet_entry(SheetHeaders, <<SheetRow(1)>>) EXCEPT !.rows = <<SheetRow(2)>>],
     [sheet_entry(SheetHeaders, <<SheetRow(1)>>) EXCEPT !.row_count = 2]}

\* the cache files the program can find at its start
FileContents ==
    {NoFile, PartialFile}
    \cup {FileOf(Put(EmptyData, <<"a", "a">>, entry)) : entry \in FileEntries}

\* the record of an operation of the file model
FileLast(op, sheet_name, outcome, issues) ==
    [op |-> op, name |-> sheet_name, outcome |-> outcome, issues |-> issues]

FileFrame ==
    UNCHANGED <<tableVars, refresh_scheduled, cache, remote, accounts_cache,
                lock, threads, uiVars, added_rows>>

\* cache_sheet_data with save_immediately: the entry is stored, then saved
FileStore(sheet_name, rows, outcome) ==
    /\ Tick
    /\ \E data \in {NamedOp(cache_data, "cache_sheet_data", sheet_name, rows)} :
          /\ cache_data' = data
          /\ \E saved \in {save_cache(data, cache_file, backup_file, outcome)} :
                /\ cache_file' = saved.file
                /\ backup_file' = saved.backup
    /\ last' = FileLast("cache_sheet_data", sheet_name, outcome, {})
    /\ FileFrame

\* clear_cache with save_immediately
FileClear(outcome) ==
    /\ Tick
    /\ cache_data' = EmptyData
    /\ \E saved \in {save_cache(EmptyData, cache_file, backup_file, outcome)} :
          /\ cache_file' = saved.file
          /\ backup_file' = saved.backup
    /\ last' = FileLast("clear_cache", <<>>, outcome, {})
    /\ FileFrame

\* the program starts again: __init__ runs _load_cache, which reports nothing
FileLoad ==
    /\ Tick
    /\ cache_data' = load_cache(cache_file)
    /\ last' = FileLast("load_cache", <<>>, "ok", {})
    /\ UNCHANGED <<cache_file, backup_file>>
    /\ FileFrame

\* validate_cache_integrity
FileValidate ==
    /\ Tick
    /\ last' = FileLast("validate_cache_integrity", <<>>, "ok",
                        validate_cache_integrity(cache_data))
    /\ UNCHANGED <<cache_data, cache_file, backup_file>>
    /\ FileFrame

InitFile ==
    /\ cache_file \in FileContents
    /\ backup_file = NoFile
    /\ cache_data = load_cache(cache_file)
    /\ lock = "free"
    /\ threads = <<>>
    /\ UiInit
    /\ cache = NotCached
    /\ remote = <<>>
    /\ grid = <<>>
    /\ pending_changes_rows = {}
    /\ changed_cells = {}
    /\ original_values = NoOrig
    /\ server_row_count = 0
    /\ refresh_scheduled = FALSE
    /\ accounts_cache = NoAccounts
    /\ steps = 0
    /\ last = FileLast("load_cache", <<>>, "ok", {})
    /\ added_rows = {}

NextFile ==
    \/ \E sheet_name \in FileSheetNames, rows \in KeyRowLists, outcome \in WriteOutcomes :
           FileStore(sheet_name, rows, outcome)
    \/ \E outcome \in WriteOutcomes : FileClear(outcome)
    \/ FileLoad
    \/ FileValidate

SpecFile == InitFile /\ [][NextFile]_vars

(***************************************************************************)
(* Reading through the cache (CachedGoogleSheetsService.get_data_as_       *)
(* dataframe): the rows served from an entry.                              *)
(***************************************************************************)
\* a row that is padded when short and never trimmed
normalize_row_NoTrim(row, n) ==
    IF Len(row) < n THEN row \o [i \in 1 .. (n - Len(row)) |-> ""] ELSE row

\* one row as served: padded with '' up to n cells, trimmed to n cells, or
\* as it is
normalize_row(row, n) ==
    IF Len(row) < n THEN row \o [i \in 1 .. (n - Len(row)) |-> ""]
    ELSE IF Len(row) > n THEN SubSeq(row, 1, n)
    ELSE row

\* normalized_rows of the cached branch of get_data_as_dataframe
normalized_rows(headers, rows) ==
    [i \in DOMAIN rows |-> normalize_row(rows[i], Len(headers))]

(***************************************************************************)
(* Threads in the cache service: cache-first loads and clear_cache run by  *)
(* several threads, one step per acquisition of the lock, per access to    *)
(* the map and per remote call.                                            *)
(***************************************************************************)
MaxCalls == 3

Threads == {"t1", "t2"}

\* the sheet the loads ask for
LoadedSheet == <<"a", "a">>

\* the rows of the sheet's entry at the start
StoredRows == <<SheetRow(1)>>

\* a thread outside the service
IdleThread == [pc |-> "idle", op |-> "none", checked |-> FALSE, found |-> FALSE,
               entry |-> NotCached, headers |-> <<>>, rows |-> <<>>]

\* what a finished call hands back
Served(raised, source, rows, checked) ==
    [raised |-> raised, source |-> source, rows |-> rows, checked |-> checked]

NoServed == Served(FALSE, "none", <<>>, FALSE)

\* the record of a step of a thread: access is "read" or "write" when the
\* step touches self.cache_data, "none" otherwise
ThreadLast(op, t, access, served) ==
    [op |-> op, thread |-> t, access |-> access, served |-> served]

ThreadFrame ==
    UNCHANGED <<tableVars, refresh_scheduled, cache, remote, accounts_cache, uiVars,
                added_rows>>

\* a load that uses whatever get_sheet_data returned
after_get_Unchecked(found) == "use"

\* `if cached_data:` after get_sheet_data: use the entry, or fall back to
\* the remote store
after_get(found) == IF found THEN "use" ELSE "fetch"

\* a `with self._lock` block that is still open when _save_cache is called
with_lock_exit_Held(t) == t

\* the end of the `with self._lock` block of a mutating operation, before
\* `if save_immediately: self._save_cache()`: the lock is released
with_lock_exit(t) == "free"

\* get_data_as_dataframe begins: is_sheet_cached reads the map without
\* taking the lock
LoadCheck(t) ==
    /\ threads[t].pc = "idle"
    /\ steps < MaxCalls
    /\ steps' = steps + 1
    /\ \E cached \in {NamedResult(cache_data, "is_sheet_cached", LoadedSheet, <<>>).ok} :
          threads' = [threads EXCEPT ![t] =
                         [IdleThread EXCEPT !.op = "load", !.checked = cached,
                                            !.pc = IF cached THEN "get_sheet_data"
                                                   ELSE "fetch"]]
    /\ last' = ThreadLast("is_sheet_cached", t, "read", NoServed)
    /\ UNCHANGED <<cache_data, cache_file, backup_file, lock>>
    /\ ThreadFrame

\* get_sheet_data: `with self._lock`
LoadAcquire(t) ==
    /\ threads[t].pc = "get_sheet_data"
    /\ lock = "free"
    /\ lock' = t
    /\ threads' = [threads EXCEPT ![t].pc = "get_locked"]
    /\ last' = ThreadLast("acquire", t, "none", NoServed)
    /\ UNCHANGED <<cache_data, cache_file, backup_file, steps>>
    /\ ThreadFrame

\* get_sheet_data: the entry, or None, is read and the lock released
LoadGet(t) ==
    /\ threads[t].pc = "get_locked"
    /\ lock' = "free"
    /\ \E got \in {NamedResult(cache_data, "get_sheet_data", LoadedSheet, <<>>)} :
          threads' = [threads EXCEPT ![t].found = got.ok, ![t].entry = got.entry,
                                     ![t].pc = after_get(got.ok)]
    /\ last' = ThreadLast("get_sheet_data", t, "read", NoServed)
    /\ UNCHANGED <<cache_data, cache_file, backup_file, steps>>
    /\ ThreadFrame

\* the cached branch: headers and rows are read from the entry that was
\* returned (subscripting None raises) and the normalized rows are served
LoadUse(t) ==
    /\ threads[t].pc = "use"
    /\ threads' = [threads EXCEPT ![t] = IdleThread]
    /\ last' = ThreadLast("load_done", t, "none",
                  IF threads[t].found
                  THEN Served(FALSE, "cache",
                              normalized_rows(threads[t].entry.headers,
                                              threads[t].entry.rows),
                              threads[t].checked)
                  ELSE Served(TRUE, "none", <<>>, threads[t].checked))
    /\ UNCHANGED <<cache_data, cache_file, backup_file, lock, steps>>
    /\ ThreadFrame

\* the fallback: sheets_service.get_data_as_dataframe; values is what
\* get_raw_data returned.  An empty frame is returned as it is, any other
\* is cached first.
LoadFetch(t, values) ==
    /\ threads[t].pc = "fetch"
    /\ IF Len(values) > 1
       THEN /\ threads' = [threads EXCEPT ![t].pc = "cache_sheet_data",
                                          ![t].headers = Head(values),
                                          ![t].rows = normalized_rows(Head(values),
                                                                      Tail(values))]
            /\ last' = ThreadLast("fetch", t, "none", NoServed)
       ELSE /\ threads' = [threads EXCEPT ![t] = IdleThread]
            /\ last' = ThreadLast("load_done", t, "none",
                                  Served(FALSE, "remote", <<>>, threads[t].checked))
    /\ UNCHANGED <<cache_data, cache_file, backup_file, lock, steps>>
    /\ ThreadFrame

\* cache_sheet_data: `with self._lock`
StoreAcquire(t) ==
    /\ threads[t].pc = "cache_sheet_data"
    /\ lock = "free"
    /\ lock' = t
    /\ threads' = [threads EXCEPT ![t].pc = "cache_locked"]
    /\ last' = ThreadLast("acquire", t, "none", NoServed)
    /\ UNCHANGED <<cache_data, cache_file, backup_file, steps>>
    /\ ThreadFrame

\* cache_sheet_data: the entry is written and the lock released
StoreWrite(t) ==
    /\ threads[t].pc = "cache_locked"
    /\ lock' = with_lock_exit(t)
    /\ cache_data' = Put(cache_data, sheet_key(LoadedSheet),
                         sheet_entry(threads[t].headers, threads[t].rows))
    /\ threads' = [threads EXCEPT ![t].pc = "save_cache"]
    /\ last' = ThreadLast("cache_sheet_data", t, "write", NoServed)
    /\ UNCHANGED <<cache_file, backup_file, steps>>
    /\ ThreadFrame

\* _save_cache: `with self._lock`
SaveAcquire(t) ==
    /\ threads[t].pc = "save_cache"
    /\ lock = "free"
    /\ lock' = t
    /\ threads' = [threads EXCEPT ![t].pc = "save_locked"]
    /\ last' = ThreadLast("acquire", t, "none", NoServed)
    /\ UNCHANGED <<cache_data, cache_file, backup_file, steps>>
    /\ ThreadFrame

\* _save_cache: the map is dumped to the file, the lock released, and the
\* call that saved returns
SaveWrite(t, outcome) ==
    /\ threads[t].pc = "save_locked"
    /\ lock' = "free"
    /\ \E saved \in {save_cache(cache_data, cache_file, backup_file, outcome)} :
          /\ cache_file' = saved.file
          /\ backup_file' = saved.backup
    /\ threads' = [threads EXCEPT ![t] = IdleThread]
    /\ last' = IF threads[t].op = "load"
               THEN ThreadLast("load_done", t, "read",
                               Served(FALSE, "remote", threads[t].rows,
                                      threads[t].checked))
               ELSE ThreadLast(threads[t].op \o "_done", t, "read", NoServed)
    /\ UNCHANGED <<cache_data, steps>>
    /\ ThreadFrame

\* clear_cache: `with self._lock`
ClearAcquire(t) ==
    /\ threads[t].pc = "idle"
    /\ steps < MaxCalls
    /\ steps' = steps + 1
    /\ lock = "free"
    /\ lock' = t
    /\ threads' = [threads EXCEPT ![t] = [IdleThread EXCEPT !.op = "clear",
                                                            !.pc = "clear_locked"]]
    /\ last' = ThreadLast("acquire", t, "none", NoServed)
    /\ UNCHANGED <<cache_data, cache_file, backup_file>>
    /\ ThreadFrame

\* clear_cache: the map is replaced by the empty structure, the lock released
ClearWrite(t) ==
    /\ threads[t].pc = "clear_locked"
    /\ lock' = with_lock_exit(t)
    /\ cache_data' = EmptyData
    /\ threads' = [threads EXCEPT ![t].pc = "save_cache"]
    /\ last' = ThreadLast("clear_cache", t, "write", NoServed)
    /\ UNCHANGED <<cache_file, backup_file, steps>>
    /\ ThreadFrame

\* the sheet is cached, as initialize_cache_on_startup leaves it, or not
InitThreads ==
    /\ cache_data \in {EmptyData,
                       Put(EmptyData, sheet_key(LoadedSheet),
                           sheet_entry(SheetHeaders, StoredRows))}
    /\ cache_file = NoFile
    /\ backup_file = NoFile
    /\ lock = "free"
    /\ threads = [t \in Threads |-> IdleThread]
    /\ UiInit
    /\ cache = NotCached
    /\ remote = <<>>
    /\ grid = <<>>
    /\ pending_changes_rows = {}
    /\ changed_cells = {}
    /\ original_values = NoOrig
    /\ server_row_count = 0
    /\ refresh_scheduled = FALSE
    /\ accounts_cache = NoAccounts
    /\ steps = 0
    /\ last = ThreadLast("init", "t1", "none", NoServed)
    /\ added_rows = {}

NextThreads ==
    \/ \E t \in Threads : LoadCheck(t)
    \/ \E t \in Threads : LoadAcquire(t)
    \/ \E t \in Threads : LoadGet(t)
    \/ \E t \in Threads : LoadUse(t)
    \/ \E t \in Threads, values \in FetchedValues : LoadFetch(t, values)
    \/ \E t \in Threads : StoreAcquire(t)
    \/ \E t \in Threads : StoreWrite(t)
    \/ \E t \in Threads : SaveAcquire(t)
    \/ \E t \in Threads, outcome \in WriteOutcomes : SaveWrite(t, outcome)
    \/ \E t \in Threads : ClearAcquire(t)
    \/ \E t \in Threads : ClearWrite(t)

SpecThreads == InitThreads /\ [][NextThreads]_vars

(***************************************************************************)
(* SpecLock: SpecThreads with the three row operations of the cache, under *)
(* the fairness of a scheduler that lets every thread run: a thread that   *)
(* can take a step of a call it has begun eventually takes it.             *)
(***************************************************************************)
MutatingOps == {"update_row_in_cache", "add_row_to_cache", "delete_rows_from_cache"}

\* the arguments the row operations are called with
MutateArg(op) ==
    CASE op = "update_row_in_cache" -> <<0, SheetRow(2)>>
      [] op = "add_row_to_cache" -> SheetRow(2)
      [] OTHER -> <<0>>

\* update_row_in_cache, add_row_to_cache, delete_rows_from_cache:
\* `with self._lock`
MutateAcquire(t, op) ==
    /\ threads[t].pc = "idle"
    /\ steps < MaxCalls
    /\ steps' = steps + 1
    /\ lock = "free"
    /\ lock' = t
    /\ threads' = [threads EXCEPT ![t] = [IdleThread EXCEPT !.op = op,
                                                            !.pc = "mutate_locked"]]
    /\ last' = ThreadLast("acquire", t, "none", NoServed)
    /\ UNCHANGED <<cache_data, cache_file, backup_file>>
    /\ ThreadFrame

\* the rows of the entry are changed and the lock released; a call that finds
\* no entry, or no such row, returns False from inside the block
MutateWrite(t) ==
    /\ threads[t].pc = "mutate_locked"
    /\ \E ok \in {NamedResult(cache_data, threads[t].op, LoadedSheet,
                               MutateArg(threads[t].op)).ok} :
          /\ lock' = IF ok THEN with_lock_exit(t) ELSE "free"
          /\ threads' = IF ok THEN [threads EXCEPT ![t].pc = "save_cache"]
                        ELSE [threads EXCEPT ![t] = IdleThread]
    /\ cache_data' = NamedOp(cache_data, threads[t].op, LoadedSheet,
                             MutateArg(threads[t].op))
    /\ last' = ThreadLast(threads[t].op, t, "write", NoServed)
    /\ UNCHANGED <<cache_file, backup_file, steps>>
    /\ ThreadFrame

NextLock ==
    \/ NextThreads
    \/ \E t \in Threads, op \in MutatingOps : MutateAcquire(t, op)
    \/ \E t \in Threads : MutateWrite(t)

\* the steps of thread t inside a call
Running(t) ==
    \/ LoadAcquire(t) \/ LoadGet(t) \/ LoadUse(t)
    \/ \E values \in FetchedValues : LoadFetch(t, values)
    \/ StoreAcquire(t) \/ StoreWrite(t)
    \/ SaveAcquire(t)
    \/ \E outcome \in WriteOutcomes : SaveWrite(t, outcome)
    \/ ClearWrite(t) \/ MutateWrite(t)

SpecLock ==
    /\ InitThreads
    /\ [][NextLock]_vars
    /\ \A t \in Threads : WF_vars(Running(t))

(***************************************************************************)
(* Serving from the cache an entry whose rows have any number of cells.    *)
(***************************************************************************)
MaxCells == 3

MaxServedRows == 2

\* rows of 0 .. MaxCells cells
RaggedRows == UNION {[1 .. n -> {"x"}] : n \in 0 .. MaxCells}

\* lists of such rows, as cache_sheet_data and add_row_to_cache accept them
RaggedRowLists == UNION {[1 .. n -> RaggedRows] : n \in 0 .. (MaxServedRows - 1)}

\* the header lists of the served sheet: one column or two
ServedHeaders == {SubSeq(SheetHeaders, 1, n) : n \in 1 .. 2}

\* the cached branch of get_data_as_dataframe: the rows of the frame returned
served_from_cache(data, sheet_name) ==
    LET cached_data == Entry(data, sheet_key(sheet_name))
    IN normalized_rows(cached_data.headers, cached_data.rows)

ServeFrame ==
    UNCHANGED <<tableVars, refresh_scheduled, cache, remote, accounts_cache,
                lock, threads, uiVars, added_rows>>

\* get_data_as_dataframe(use_cache=True) for a cached sheet
ServeCached ==
    /\ Tick
    /\ NamedResult(cache_data, "is_sheet_cached", LoadedSheet, <<>>).ok
    /\ last' = ThreadLast("get_data_as_dataframe", "t1", "read",
                          Served(FALSE, "cache",
                                 served_from_cache(cache_data, LoadedSheet), TRUE))
    /\ UNCHANGED <<cache_data, cache_file, backup_file>>
    /\ ServeFrame

\* add_row_to_cache with save_immediately: a row of any length is appended
ServeAddRow(row_data, outcome) ==
    /\ Tick
    /\ Len(Entry(cache_data, sheet_key(LoadedSheet)).rows) < MaxServedRows
    /\ \E data \in {NamedOp(cache_data, "add_row_to_cache", LoadedSheet, row_data)} :
          /\ cache_data' = data
          /\ \E saved \in {save_cache(data, cache_file, backup_file, outcome)} :
                /\ cache_file' = saved.file
                /\ backup_file' = saved.backup
    /\ last' = ThreadLast("add_row_to_cache", "t1", "write", NoServed)
    /\ ServeFrame

InitServe ==
    /\ \E headers \in ServedHeaders, rows \in RaggedRowLists :
          cache_data = Put(EmptyData, sheet_key(LoadedSheet), sheet_entry(headers, rows))
    /\ cache_file = NoFile
    /\ backup_file = NoFile
    /\ lock = "free"
    /\ threads = <<>>
    /\ UiInit
    /\ cache = NotCached
    /\ remote = <<>>
    /\ grid = <<>>
    /\ pending_changes_rows = {}
    /\ changed_cells = {}
    /\ original_values = NoOrig
    /\ server_row_count = 0
    /\ refresh_scheduled = FALSE
    /\ accounts_cache = NoAccounts
    /\ steps = 0
    /\ last = ThreadLast("init", "t1", "none", NoServed)
    /\ added_rows = {}

NextServe ==
    \/ ServeCached
    \/ \E row_data \in RaggedRows, outcome \in WriteOutcomes : ServeAddRow(row_data, outcome)

SpecServe == InitServe /\ [][NextServe]_vars

(***************************************************************************)
(* confirm_pending_changes of BaseEditableTable in its steps: the button   *)
(* is disabled, save_changes_to_server runs and returns or raises, the     *)
(* button is enabled again.  A click on the button is delivered whenever   *)
(* the button is enabled and shown.                                        *)
(***************************************************************************)
\* the UI thread at a position
UiAt(pc) == [t \in {"ui"} |-> [IdleThread EXCEPT !.pc = pc]]

\* a confirm that leaves the button enabled while it saves
SavingEnabled_Left == TRUE

\* self.confirm_button.setEnabled(False) before the save
SavingEnabled == FALSE

\* how save_changes_to_server ends: it returns True, returns False, or raises
SaveOutcomes == {"success", "failure", "exception"}

\* the click on the confirm button: confirm_pending_changes up to the call
\* of save_changes_to_server
ConfirmBegin ==
    /\ Tick
    /\ confirm_enabled
    /\ pending_changes_rows # {}
    /\ confirm_enabled' = SavingEnabled
    /\ threads' = UiAt("saving")
    /\ last' = Last("confirm_begin", threads["ui"].pc, -1, -1, pending_changes_rows, <<>>)
    /\ UNCHANGED <<tableVars, refresh_scheduled, cache, remote, accounts_cache,
                   cache_data, cache_file, backup_file, lock, connections, added_rows>>

\* save_changes_to_server has ended: the trackers are cleared on success,
\* and on every path the button is enabled again
ConfirmEnd(order, outcome) ==
    /\ threads["ui"].pc = "saving"
    /\ order \in Orders(pending_changes_rows)
    /\ LET df == get_data_as_dataframe(cache, remote, TRUE, TRUE)
           plan == MonthlyPlan(order, Len(df.rows))
       IN /\ IF outcome = "success"
             THEN /\ remote' = RemoteWrite(remote, plan)
                  /\ cache' = update_cache_from_batch_updates(df.cache, plan)
                  /\ ConfirmSuccess
                  /\ added_rows' = {}
             ELSE /\ remote' = remote
                  /\ cache' = df.cache
                  /\ UNCHANGED <<tableVars, added_rows>>
          /\ last' = Last("confirm_end", outcome, -1, -1, pending_changes_rows, plan)
    /\ confirm_enabled' = TRUE
    /\ threads' = UiAt("idle")
    /\ UNCHANGED <<refresh_scheduled, accounts_cache, cache_data, cache_file,
                   backup_file, lock, connections, steps>>

\* the event loop delivers a cell edit when no handler is running
UiIdle == threads["ui"].pc = "idle"

InitConfirm ==
    /\ grid = <<>>
    /\ pending_changes_rows = {}
    /\ changed_cells = {}
    /\ original_values = NoOrig
    /\ server_row_count = 0
    /\ refresh_scheduled = FALSE
    /\ \E n \in 0 .. MaxServerRows : remote = [k \in 1 .. n |-> ServerRow]
    /\ cache \in {NotCached, cache_sheet_data(remote)}
    /\ accounts_cache = NoAccounts
    /\ cache_data = EmptyData
    /\ cache_file = NoFile
    /\ backup_file = NoFile
    /\ lock = "free"
    /\ threads = UiAt("idle")
    /\ UiInit
    /\ steps = 0
    /\ last = Last("init", "ok", -1, -1, {}, <<>>)
    /\ added_rows = {}

NextConfirm ==
    \/ UiIdle /\ \E readOk \in BOOLEAN : MonthlyLoadData(readOk)
    \/ UiIdle /\ add_new_row
    \/ UiIdle /\ \E row \in 0 .. (MaxRows - 1), col \in Cols, value \in Vals :
                    on_table_item_changed(row, col, value)
    \/ ConfirmBegin
    \/ \E order \in UNION {Orders(S) : S \in SUBSET (0 .. (MaxRows - 1))},
          outcome \in SaveOutcomes : ConfirmEnd(order, outcome)

SpecConfirm == InitConfirm /\ [][NextConfirm]_vars

(***************************************************************************)
(* SpecCreate: AccountRepository.create_account called over and over on    *)
(* the accounts sheet, with reloads and cache clears in between.           *)
(* create_transaction has the same body over the transactions sheet.       *)
(***************************************************************************)
CreateNames == {"Tea", "Rent", "Bank"}

CreateFrame ==
    UNCHANGED <<tableVars, refresh_scheduled, accounts_cache, storeVars, uiVars, added_rows>>

\* AccountRepository.create_account; last.row is next_row, the sheet row the
\* account is written to
RepoCreateAccount(account_name, readOk, writeOk) ==
    /\ Tick
    /\ Len(remote) < MaxCreated
    /\ (cache.cached => readOk)
    /\ \E df \in {get_data_as_dataframe(cache, remote, TRUE, readOk)} :
       \E r \in {repo_create_account(
                     [cache |-> cache, remote |-> remote, ac |-> accounts_cache],
                     [id |-> NewAccountId(account_name), name |-> account_name,
                      cur |-> "CAD", active |-> TRUE],
                     readOk, writeOk)} :
          /\ cache' = r.w.cache
          /\ remote' = r.w.remote
          /\ last' = Last("create", IF r.ok THEN "success" ELSE "failure",
                          Len(df.rows) + 2, -1, {}, <<>>)
    /\ CreateFrame

\* get_data_as_dataframe(use_cache=False): the sheet is fetched again and
\* cached when it has rows
RepoReload(readOk) ==
    /\ Tick
    /\ cache' = get_data_as_dataframe(cache, remote, FALSE, readOk).cache
    /\ last' = Last("reload", IF readOk THEN "ok" ELSE "fail", -1, -1, {}, <<>>)
    /\ UNCHANGED remote
    /\ CreateFrame

\* clear_cache
RepoClearCache ==
    /\ Tick
    /\ cache.cached
    /\ cache' = NotCached
    /\ last' = Last("clear", "ok", -1, -1, {}, <<>>)
    /\ UNCHANGED remote
    /\ CreateFrame

InitCreate ==
    /\ \E n \in 0 .. MaxServerRows : remote = [k \in 1 .. n |-> ServerAccountRow(k)]
    /\ cache \in {NotCached} \cup (IF remote = <<>> THEN {} ELSE {cache_sheet_data(remote)})
    /\ StoreInit
    /\ UiInit
    /\ accounts_cache = NoAccounts
    /\ grid = <<>>
    /\ pending_changes_rows = {}
    /\ changed_cells = {}
    /\ original_values = NoOrig
    /\ server_row_count = 0
    /\ refresh_scheduled = FALSE
    /\ steps = 0
    /\ last = [op |-> "init", result |-> "ok", row |-> -1, col |-> -1,
               rows |-> {}, plan |-> <<>>, src |-> 0, phase |-> 0]
    /\ added_rows = {}

NextCreate ==
    \/ \E account_name \in CreateNames, readOk, writeOk \in BOOLEAN :
           RepoCreateAccount(account_name, readOk, writeOk)
    \/ \E readOk \in BOOLEAN : RepoReload(readOk)
    \/ RepoClearCache

SpecCreate == InitCreate /\ [][NextCreate]_vars

(***************************************************************************)
(* SpecConnect: the monthly table with the connections of the itemChanged  *)
(* signal of its grid to on_table_item_changed. populate_table_with_data   *)
(* may raise part-way; itemChanged.disconnect() with nothing connected     *)
(* either raises or only warns, depending on the binding.                  *)
(***************************************************************************)
ConnectFrame ==
    UNCHANGED <<refresh_scheduled, remote, accounts_cache, storeVars, confirm_enabled>>

\* load_data with populate_table_with_data: disconnect, fill, reconnect; an
\* exception on the way is caught by load_data, which shows the empty table
ConnLoadData(readOk, disconnect_raises, populate_raises) ==
    /\ Tick
    /\ (cache.cached => readOk)
    /\ disconnect_raises => connections = 0
    /\ \E df \in {get_data_as_dataframe(cache, remote, TRUE, readOk)} :
          /\ cache' = df.cache
          /\ IF df.rows = <<>>
             THEN /\ ~ disconnect_raises /\ ~ populate_raises
                  /\ ShowEmptyTable
                  /\ UNCHANGED connections
                  /\ last' = Last("load", "empty", -1, -1, {}, <<>>)
             ELSE IF disconnect_raises
             THEN /\ ~ populate_raises
                  /\ ShowEmptyTable
                  /\ UNCHANGED connections
                  /\ last' = Last("load", "raised", -1, -1, {}, <<>>)
             ELSE IF populate_raises
             THEN /\ ShowEmptyTable
                  /\ connections' = 0
                  /\ last' = Last("load", "raised", -1, -1, {}, <<>>)
             ELSE /\ MonthlyPopulate(df.rows)
                  /\ connections' = 0 + 1
                  /\ last' = Last("load", "ok", -1, -1, {}, <<>>)
    /\ added_rows' = {}
    /\ ConnectFrame

\* add_new_row: disconnect, append the row, reconnect; when disconnect raises
\* the handler is connected again if the signal has no receiver
ConnAddNewRow(disconnect_raises) ==
    /\ Tick
    /\ Len(grid) < MaxRows
    /\ disconnect_raises => connections = 0
    /\ IF disconnect_raises
       THEN /\ UNCHANGED <<tableVars, added_rows>>
            /\ connections' = IF connections = 0 THEN 1 ELSE connections
            /\ last' = Last("add", "raised", -1, -1, {}, <<>>)
       ELSE /\ AddNewRowBody(DefaultRow)
            /\ added_rows' = added_rows \cup {Len(grid)}
            /\ connections' = 0 + 1
            /\ last' = Last("add", "ok", Len(grid), -1, {}, <<>>)
    /\ UNCHANGED cache
    /\ ConnectFrame

\* the user edits a text cell: itemChanged calls on_table_item_changed once
\* per connection; last.src is the number of times the edit was recorded
ConnEdit(row, col, value) ==
    /\ Tick
    /\ row \in RowIdx(grid)
    /\ col \in TextCols
    /\ value # grid[row + 1][col + 1]
    /\ grid' = [grid EXCEPT ![row + 1][col + 1] = value]
    /\ IF connections = 0
       THEN UNCHANGED <<pending_changes_rows, changed_cells>>
       ELSE TrackCell(grid', row, col, value)
    /\ last' = [Last("edit",
                     IF validate_cell_change(col, value) THEN "accepted" ELSE "rejected",
                     row, col, {}, <<>>) EXCEPT !.src = connections]
    /\ UNCHANGED <<original_values, server_row_count, cache, connections, added_rows>>
    /\ ConnectFrame

NextConnect ==
    \/ \E readOk, disconnect_raises, populate_raises \in BOOLEAN :
           ConnLoadData(readOk, disconnect_raises, populate_raises)
    \/ \E disconnect_raises \in BOOLEAN : ConnAddNewRow(disconnect_raises)
    \/ \E row \in 0 .. (MaxRows - 1), col \in Cols, value \in Vals :
           ConnEdit(row, col, value)

SpecConnect == Init /\ [][NextConnect]_vars

(***************************************************************************)
(* Properties of the change tracking.                                      *)
(***************************************************************************)
\* the rows that have at least one cell in changed_cells
RowsWithChangedCells == {p[1] : p \in changed_cells}

C2_ChangedIffDiffers ==
    \A r \in RowIdx(grid), c \in Cols :
        (<<r, c>> \in changed_cells) <=> check_cell_changed(grid, original_values, r, c)

(***************************************************************************)
(* Properties of a commit.                                                 *)
(***************************************************************************)
\* C3, as stated: in every commit, each pending row below server_row_count
\* has one write in the batch, and that write targets sheet row r + 2.
C3_ServerRowsTargetOwnRow ==
    last.op = "confirm" =>
        \A r \in last.rows :
            r < last.src =>
                /\ Cardinality({i \in DOMAIN last.plan : last.plan[i].row = r}) = 1
                /\ \A i \in DOMAIN last.plan :
                       last.plan[i].row = r => last.plan[i].target = r + 2

\* C4, as stated: in every commit the pending rows at or above
\* server_row_count (N) are written to the sheet rows N+2, N+3, ... in the
\* order of their indices, and no two writes of the batch share a target.
C4_NewRowsTargetContiguous ==
    last.op = "confirm" =>
        LET created == {r \in last.rows : r >= last.src}
        IN /\ \A i \in DOMAIN last.plan :
                  last.plan[i].row \in created =>
                      last.plan[i].target =
                          last.src + 2
                          + Cardinality({q \in created : q < last.plan[i].row})
           /\ \A i, j \in DOMAIN last.plan :
                  i # j => last.plan[i].target # last.plan[j].target

\* C5, as stated: after a successful commit server_row_count has grown by
\* the number of new rows written, no committed row is pending or has a
\* changed cell, and the original values of each committed row are the
\* values that were submitted for it.
C5_SuccessfulCommitPostcondition ==
    (last.op = "confirm" /\ last.result = "success") =>
        /\ server_row_count =
               last.src + Cardinality({i \in DOMAIN last.plan :
                                          last.plan[i].row >= last.src})
        /\ \A r \in last.rows :
               /\ r \notin pending_changes_rows
               /\ \A c \in Cols : <<r, c>> \notin changed_cells
        /\ \A i \in DOMAIN last.plan, c \in Cols :
               OriginalOf(original_values, last.plan[i].row, c)
                   = last.plan[i].values[c + 1]

\* C6, as stated: a commit that fails as a whole (the remote batch call
\* returns failure or raises) mutates nothing: pending_changes_rows,
\* changed_cells, original_values and server_row_count are exactly as they
\* were before the commit.
C6_FailedCommitMutatesNothing ==
    [][(steps' = steps + 1 /\ last'.op = "confirm" /\ last'.result = "failure")
          => UNCHANGED <<pending_changes_rows, changed_cells, original_values,
                         server_row_count>>]_vars

\* the rows of a commit for which a call was made and succeeded / failed
SucceededRows(results) ==
    {results[k].row : k \in {j \in 1 .. Len(results) : results[j].sent /\ results[j].ok}}

FailedRows(results) ==
    {results[k].row : k \in {j \in 1 .. Len(results) : results[j].sent /\ ~ results[j].ok}}

\* C7, as stated: when a commit succeeds for only some of its rows, after the
\* commit the dirty-row set contains exactly the rows that failed, the
\* baseline of each succeeded row equals its submitted values, and the
\* baseline of each failed row is untouched.
C7_PartialCommitKeepsFailedRowsDirty ==
    [][(/\ steps' = steps + 1
        /\ last'.op = "confirm"
        /\ SucceededRows(last'.plan) # {}
        /\ FailedRows(last'.plan) # {})
          => /\ pending_changes_rows' = FailedRows(last'.plan)
             /\ \A k \in 1 .. Len(last'.plan) :
                   LET u == last'.plan[k]
                   IN \A c \in Cols :
                         IF u.sent /\ u.ok
                         THEN OriginalOf(original_values', u.row, c) = u.values[c + 1]
                         ELSE u.sent =>
                                 OriginalOf(original_values', u.row, c)
                                     = OriginalOf(original_values, u.row, c)]_vars

\* C8, as stated: after a successful commit the cache entry of the sheet
\* holds the same rows as the remote store.
C8_CacheMatchesRemoteAfterCommit ==
    (last.op = "confirm" /\ last.result = "success" /\ cache.cached) =>
        cache.rows = remote

(***************************************************************************)
(* Properties of a run of edits of one cell.                               *)
(***************************************************************************)
\* C9, as stated: editing a cell away from its original value and then back
\* removes the cell from changed_cells, removes its row from
\* pending_changes_rows when no other cell of the row is changed, and leaves
\* every other row and cell as it was.
C9_RevertClearsCell ==
    [][(steps' = steps + 1 /\ last'.op = "edit" /\ last'.phase = 2) =>
          /\ changed_cells' = changed_cells \ {<<last'.row, last'.col>>}
          /\ pending_changes_rows' =
                 IF \E d \in Cols \ {last'.col} : <<last'.row, d>> \in changed_cells
                 THEN pending_changes_rows
                 ELSE pending_changes_rows \ {last'.row}]_vars

\* What holds of C9 when the edit that restores the original value passes
\* validate_cell_change.
AcceptedRevertClearsCell ==
    [][(steps' = steps + 1 /\ last'.op = "edit" /\ last'.phase = 2
        /\ last'.result = "accepted") =>
          /\ changed_cells' = changed_cells \ {<<last'.row, last'.col>>}
          /\ pending_changes_rows' =
                 IF \E d \in Cols \ {last'.col} : <<last'.row, d>> \in changed_cells
                 THEN pending_changes_rows
                 ELSE pending_changes_rows \ {last'.row}]_vars

\* C10, as stated: editing a cell to a new value, back to its original value
\* and again to a new value leaves its row pending and the cell in
\* changed_cells; an edit of a cell that differed from its original value
\* and still does changes neither set.
C10_ReEditKeepsDirty ==
    [][(steps' = steps + 1 /\ last'.op = "edit") =>
          LET r == last'.row
              c == last'.col
              base == OriginalOf(original_values, r, c)
          IN /\ last'.phase = 3 =>
                    (r \in pending_changes_rows' /\ <<r, c>> \in changed_cells')
             /\ (grid[r + 1][c + 1] # base /\ grid'[r + 1][c + 1] # base) =>
                    (changed_cells' = changed_cells
                     /\ pending_changes_rows' = pending_changes_rows)]_vars

\* What holds of C10 when the edit passes validate_cell_change and, for its
\* second part, the cell was already in changed_cells.
AcceptedReEditKeepsDirty ==
    [][(steps' = steps + 1 /\ last'.op = "edit" /\ last'.result = "accepted") =>
          LET r == last'.row
              c == last'.col
              base == OriginalOf(original_values, r, c)
          IN /\ last'.phase = 3 =>
                    (r \in pending_changes_rows' /\ <<r, c>> \in changed_cells')
             /\ (<<r, c>> \in changed_cells /\ grid[r + 1][c + 1] # base
                 /\ grid'[r + 1][c + 1] # base) =>
                    (changed_cells' = changed_cells
                     /\ pending_changes_rows' = pending_changes_rows)]_vars

(***************************************************************************)
(* Properties of validation.                                               *)
(***************************************************************************)
\* C11: an edit that validate_cell_change rejects leaves
\* pending_changes_rows, changed_cells and original_values exactly as they
\* were before the edit.
C11_RejectedEditLeavesTrackers ==
    [][(steps' = steps + 1 /\ last'.op = "edit" /\ last'.result = "rejected")
          => UNCHANGED <<pending_changes_rows, changed_cells, original_values>>]_vars

\* C11: a rejected edit of a cell whose text differed from what the table
\* held for it as original, with another row pending
C11_Witness ==
    /\ last.op = "edit"
    /\ last.result = "rejected"
    /\ check_cell_changed(grid, original_values, last.row, last.col)
    /\ <<last.row, last.col>> \notin changed_cells
    /\ pending_changes_rows \ {last.row} # {}

(***************************************************************************)
(* Properties of the batch a commit builds.                                *)
(***************************************************************************)
\* C12, as stated: in every commit the writes of the batch are in ascending
\* order of the row index they were built from.
C12_WritesInAscendingRowOrder ==
    last.op = "confirm" =>
        \A i, j \in DOMAIN last.plan :
            i < j => last.plan[i].row < last.plan[j].row

\* C13, as stated: a pending row whose required fields are all empty is left
\* out of the batch of a commit, and a commit whose batch is empty because
\* every pending row was left out reports success.
C13_BlankRowsLeftOutOfCommit ==
    last.op = "confirm" =>
        /\ \A i \in DOMAIN last.plan :
               \E c \in RequiredCols : Strip(last.plan[i].values[c + 1]) # ""
        /\ (last.rows # {} /\ last.plan = <<>>) => last.result = "success"

C15_CleanRowsProduceNoWrites ==
    [][(steps' = steps + 1 /\ last'.op = "confirm") =>
          /\ pending_changes_rows = {} =>
                 /\ last'.plan = <<>>
                 /\ UNCHANGED <<remote, cache, tableVars>>
          /\ \A i \in DOMAIN last'.plan :
                 last'.plan[i].row \in pending_changes_rows]_vars

\* C15: a commit was asked for with nothing pending, on a table whose rows
\* are all saved rows
C15_Witness ==
    /\ last.op = "confirm"
    /\ last.result = "nothing"
    /\ pending_changes_rows = {}
    /\ grid # <<>>
    /\ server_row_count = Len(grid)

(***************************************************************************)
(* Properties of a load.                                                   *)
(***************************************************************************)
\* C16, as stated: after every successful load server_row_count is the
\* number of rows loaded, pending_changes_rows and changed_cells are empty,
\* and original_values holds exactly the loaded value of every cell; also
\* when no row was loaded.
C16_LoadResetsTrackers ==
    (last.op = "load" /\ last.result = "ok") =>
        /\ server_row_count = Len(grid)
        /\ pending_changes_rows = {}
        /\ changed_cells = {}
        /\ original_values = store_original_values(grid)

(***************************************************************************)
(* Properties of a delete.                                                 *)
(***************************************************************************)
\* the rows of grid g whose indices are not in S, in their order
WithoutRows(g, S) ==
    LET keep == SortedAsc(RowIdx(g) \ S)
    IN [i \in 1 .. Len(keep) |-> g[keep[i] + 1]]

C19_DeleteAdjustsServerRowCount ==
    [][(steps' = steps + 1 /\ last'.op = "delete") =>
          LET serverBacked == {r \in last'.rows : r < server_row_count}
          IN /\ last'.result = "success" =>
                    server_row_count' = server_row_count - Cardinality(serverBacked)
             /\ last'.result = "failure" =>
                    /\ server_row_count' = server_row_count
                    /\ \A r \in RowIdx(grid) :
                           r < server_row_count =>
                               (r \in RowIdx(grid') /\ grid'[r + 1] = grid[r + 1])]_vars

\* C18: a multi-row remote delete issues one delete request per row number
\* of its input, in descending order of row number whatever the order of the
\* input, and after a successful delete the rows on the sheet are exactly the
\* former rows whose numbers were not in the input, in their former order.
C18_RemoteDeleteIsDescending ==
    [][(steps' = steps + 1 /\ last'.op = "delete_multiple_rows") =>
          /\ Len(last'.plan) = Len(last'.rows)
          /\ Elements(last'.plan) = Elements(last'.rows)
          /\ \A i, j \in DOMAIN last'.plan :
                 i < j => last'.plan[i] > last'.plan[j]
          /\ last'.result = "success" =>
                 remote' = WithoutRows(remote, {n - 2 : n \in Elements(last'.rows)})]_vars

\* C18: sheet rows 3, 7 and 5 of a sheet of six data rows were deleted, and
\* the requests were for rows 7, 5 and 3
C18_Witness ==
    /\ last.op = "delete_multiple_rows"
    /\ last.result = "success"
    /\ last.rows = <<3, 7, 5>>
    /\ last.plan = <<7, 5, 3>>
    /\ remote = <<SheetRow(1), SheetRow(3), SheetRow(5)>>

(***************************************************************************)
(* Properties of the cache.                                                *)
(***************************************************************************)
\* C20: in every reachable state of the cache the entry of the sheet, when
\* there is one, stores the hash of its current headers and rows as
\* data_hash and the length of its rows list as row_count.
C20_CacheEntryConsistent ==
    cache.cached =>
        /\ cache.data_hash = calculate_data_hash(cache.headers, cache.rows)
        /\ cache.row_count = Len(cache.rows)

\* C20: rows were deleted from an entry that earlier operations had built,
\* and one row is left
C20_Witness ==
    /\ cache.cached
    /\ last.op = "delete_rows_from_cache"
    /\ last.result = "ok"
    /\ Cardinality(last.rows) = 2
    /\ cache.rows = <<SheetRow(2)>>
    /\ cache.row_count = 1
    /\ steps >= 3

\* C21, as stated: update_row_in_cache returns False and changes nothing when
\* the sheet is not cached or the row index is outside 0 .. len(rows) - 1;
\* otherwise it replaces exactly the row at that index.
C21_UpdateRowInBoundsOnly ==
    [][(steps' = steps + 1 /\ last'.op = "update_row_in_cache") =>
          IF ~ cache.cached \/ last'.row \notin RowIdx(cache.rows)
          THEN last'.result = "refused" /\ cache' = cache
          ELSE /\ last'.result = "ok"
               /\ cache'.rows = [cache.rows EXCEPT ![last'.row + 1] = last'.plan[1]]]_vars

\* C22: only cache_sheet_data creates the entry of a sheet.  On a sheet that
\* is not cached, update_row_in_cache, add_row_to_cache and
\* delete_rows_from_cache return False and leave the cache as it was.
C22_OnlyStoreCreatesEntry ==
    [][(steps' = steps + 1 /\ ~ cache.cached) =>
          /\ cache'.cached => last'.op = "cache_sheet_data"
          /\ last'.op \in {"update_row_in_cache", "add_row_to_cache",
                           "delete_rows_from_cache"} =>
                 (last'.result = "refused" /\ cache' = cache)]_vars

\* C22: a row was offered to a sheet whose entry had been cleared
C22_Witness ==
    /\ last.op = "add_row_to_cache"
    /\ last.result = "refused"
    /\ ~ cache.cached
    /\ steps >= 3

\* C23, as stated: delete_rows_from_cache on a cached sheet removes exactly
\* the rows that stood at the given indices before the call, one row at most
\* for each index whatever the order or repetition of the indices, and
\* leaves the other rows in their order.
C23_DeleteRowsRemovesGivenIndices ==
    [][(steps' = steps + 1 /\ last'.op = "delete_rows_from_cache" /\ cache.cached) =>
          cache'.rows = WithoutRows(cache.rows, Elements(last'.plan))]_vars

\* two display names that differ only in letter case and in a space or a
\* hyphen between words
SameButCaseAndSeparator(a, b) ==
    /\ Len(a) = Len(b)
    /\ \A i \in DOMAIN a : lower(a[i]) = lower(b[i]) \/ {a[i], b[i]} \subseteq {" ", "-"}

\* the operations of the cache that take a sheet name
NamedOps == {"cache_sheet_data", "get_sheet_data", "is_sheet_cached",
             "update_row_in_cache", "add_row_to_cache", "delete_rows_from_cache"}

\* C24: a cache operation called with a display name does, and returns, what
\* it would with any other display name that differs from it only in letter
\* case and in space against hyphen; it changes at most one entry of the
\* map, and after a store every such name is reported cached.
C24_EquivalentNamesAddressOneEntry ==
    [][(steps' = steps + 1 /\ last'.op \in NamedOps) =>
          /\ \A m \in SheetNames :
                SameButCaseAndSeparator(m, last'.name) =>
                   /\ cache_data' = NamedOp(cache_data, last'.op, m, last'.arg)
                   /\ last'.result = NamedResult(cache_data, last'.op, m, last'.arg)
                   /\ last'.op = "cache_sheet_data" =>
                         NamedResult(cache_data', "is_sheet_cached", m, <<>>).ok
          /\ Cardinality({k \in DOMAIN cache_data \cup DOMAIN cache_data' :
                             Entry(cache_data', k) # Entry(cache_data, k)}) <= 1]_vars

\* C24 witness: a row was updated through the name "A " in a map whose only
\* entry sits under the key "a-"
C24_Witness ==
    /\ last.op = "update_row_in_cache"
    /\ last.name = <<"A", " ">>
    /\ last.result.ok
    /\ DOMAIN cache_data = {<<"a", "-">>}
    /\ cache_data[<<"a", "-">>].rows = <<SheetRow(2)>>

\* C25, as stated: right after invalidate_sheet_cache the sheet is not
\* cached, whatever the remote store answered, and right after clear_cache
\* no sheet is cached.
C25_InvalidateRemovesEntry ==
    [][(steps' = steps + 1) =>
          /\ last'.op = "invalidate_sheet_cache" =>
                ~ NamedResult(cache_data', "is_sheet_cached", last'.name, <<>>).ok
          /\ last'.op = "clear_cache" => DOMAIN cache_data' = {}]_vars

\* the sheets of a map whose stored hash is not the hash of their headers
\* and rows
HashMismatches(data) ==
    {k \in DOMAIN data : data[k].data_hash # calculate_data_hash(data[k].headers, data[k].rows)}

\* C28, as stated: loading the cache file does not raise, the loaded entries
\* are served, and every loaded entry whose stored hash is not the hash of
\* its headers and rows is reported as a validation issue, by the load or by
\* the validation of what was loaded.
C28_LoadFlagsHashMismatch ==
    [][(steps' = steps + 1 /\ last'.op = "load_cache") =>
          /\ last'.outcome = "ok"
          /\ cache_data' = load_cache(cache_file)
          /\ HashMismatches(cache_data') \subseteq
                last'.issues \cup validate_cache_integrity(cache_data')]_vars

\* C29, as stated: after a save whose write failed the cache file is what
\* it was before the save; after a save that succeeded the file holds the
\* in-memory cache and the backup holds the file there was before.
C29_FailedSaveKeepsPreviousFile ==
    [][(steps' = steps + 1 /\ last'.op \in {"cache_sheet_data", "clear_cache"}) =>
          IF last'.outcome = "ok"
          THEN /\ cache_file' = FileOf(cache_data')
               /\ cache_file.state # "absent" => backup_file' = cache_file
          ELSE cache_file' = cache_file]_vars

\* the rows a load can have found in the cache or fetched
LoadableRows == {StoredRows} \cup {normalized_rows(Head(v), Tail(v)) : v \in FetchedValues \ {<<>>}}

\* C26: a cache-first load that runs while other threads clear the cache
\* finishes without raising; it serves the rows of an entry the cache held,
\* or the rows it fetched from the remote store.
C26_LoadSurvivesClear ==
    [][(last'.op = "load_done" /\ threads' # threads) =>
          /\ ~ last'.served.raised
          /\ last'.served.source \in {"cache", "remote"}
          /\ last'.served.source = "cache" =>
                /\ threads[last'.thread].found
                /\ last'.served.rows =
                      normalized_rows(threads[last'.thread].entry.headers,
                                      threads[last'.thread].entry.rows)
          /\ last'.served.rows \in LoadableRows \cup {<<>>}]_vars

\* C26 witness: is_sheet_cached said the sheet was cached, the cache was
\* cleared before get_sheet_data ran, and the load served the rows it then
\* fetched from the remote store
C26_Witness ==
    /\ last.op = "load_done"
    /\ last.served.checked
    /\ last.served.source = "remote"
    /\ last.served.rows = <<SheetRow(2)>>
    /\ ~ last.served.raised

\* C27, as stated: a step that reads or writes the cache map is taken by a
\* thread that holds the lock.
C27_MapAccessUnderLock ==
    [][(threads' # threads /\ last'.access \in {"read", "write"}) =>
          lock = last'.thread]_vars

\* C30: the rows served from the cache are the cached rows in their order,
\* each with as many cells as the cached headers: the cells the row has, up
\* to that number, and empty strings after them; the entry is left as it was.
C30_ServedRowsMatchHeaders ==
    [][(steps' = steps + 1 /\ last'.op = "get_data_as_dataframe") =>
          LET cached_data == cache_data[sheet_key(LoadedSheet)]
              served == last'.served.rows
          IN /\ Len(served) = Len(cached_data.rows)
             /\ \A i \in DOMAIN served :
                   /\ Len(served[i]) = Len(cached_data.headers)
                   /\ \A j \in DOMAIN served[i] :
                         served[i][j] = IF j <= Len(cached_data.rows[i])
                                        THEN cached_data.rows[i][j] ELSE ""
                   /\ Len(cached_data.rows[i]) = Len(cached_data.headers) =>
                         served[i] = cached_data.rows[i]
             /\ cache_data' = cache_data]_vars

\* C30 witness: an entry of two columns with a row of one cell and a row of
\* three was served as two rows of two cells
C30_Witness ==
    /\ last.op = "get_data_as_dataframe"
    /\ cache_data[sheet_key(LoadedSheet)].headers = SheetHeaders
    /\ cache_data[sheet_key(LoadedSheet)].rows = <<<<"x">>, <<"x", "x", "x">>>>
    /\ last.served.rows = <<<<"x", "">>, <<"x", "x">>>>

\* C31: while save_changes_to_server runs the confirm button is disabled;
\* a click is handled only when no commit is in flight; and when the save
\* has ended, by returning True, returning False or raising, the button is
\* enabled again.
C31_NoCommitWhileInFlight ==
    [][/\ threads'["ui"].pc = "saving" => ~ confirm_enabled'
       /\ (steps' = steps + 1 /\ last'.op = "confirm_begin") => threads["ui"].pc = "idle"
       /\ (threads["ui"].pc = "saving" /\ threads'["ui"].pc = "idle") =>
             (confirm_enabled' /\ last'.op = "confirm_end")]_vars

\* C31 witness: a save that raised has ended, rows are still pending and
\* the button is enabled
C31_Witness ==
    /\ last.op = "confirm_end"
    /\ last.result = "exception"
    /\ pending_changes_rows # {}
    /\ confirm_enabled

\* C32, as stated: after a load that found no entry and read the sheet from
\* the remote store, the sheet has an entry that holds the rows read, also
\* when no row was read.
C32_RemoteLoadFillsCache ==
    [][(steps' = steps + 1 /\ last'.op = "load" /\ last'.result = "ok"
        /\ ~ cache.cached) =>
          (cache'.cached /\ cache'.rows = remote)]_vars

\* C33, as stated: a cell edit never takes a row that add_new_row made, and
\* that is in the dirty-row set, out of that set.
C33_NewRowStaysDirty ==
    [][(steps' = steps + 1 /\ last'.op = "edit") =>
          \A r \in added_rows \cap pending_changes_rows :
              is_new_row(r, server_row_count) => r \in pending_changes_rows']_vars

\* C34, as stated: after a confirm that succeeded, every grid row below
\* server_row_count has its row on the remote store, at sheet row index + 2,
\* holding the row's values as they are submitted (stripped).
C34_ServerBackedRowsWereWritten ==
    [][(steps' = steps + 1 /\ last'.op = "confirm" /\ last'.result = "success") =>
          \A r \in RowIdx(grid') :
              r < server_row_count' =>
                 /\ r + 1 <= Len(remote')
                 /\ remote'[r + 1] = [c \in DOMAIN grid'[r + 1] |-> Strip(grid'[r + 1][c])]]_vars

\* C35, as stated: of two successful creates that follow one another with no
\* reload and no cache clear in between, the second is written to another
\* sheet row than the first.
C35_SecondCreateKeepsFirst ==
    [][(/\ steps' = steps + 1
        /\ last.op = "create" /\ last.result = "success"
        /\ last'.op = "create" /\ last'.result = "success") =>
          last'.row # last.row]_vars

\* C36, as stated (first half): when _delete_rows_internal has removed
\* local-only rows from the grid, the three trackers hold no entry for a row
\* index at or beyond the grid's row count.
C36_TrackersWithinGridAfterLocalDelete ==
    [][(steps' = steps + 1 /\ last'.op = "delete" /\ Len(grid') < Len(grid)) =>
          /\ \A r \in pending_changes_rows' : r < Len(grid')
          /\ \A p \in changed_cells' : p[1] < Len(grid')
          /\ \A p \in DOMAIN original_values' : p[1] < Len(grid')]_vars

\* C37, as stated: when a sheet has just been cached under a display name,
\* the cache-backed get_sheet_names returns a list that contains that name.
C37_CachedNameIsListed ==
    [][(/\ steps' = steps + 1
        /\ last.op = "cache_sheet_data"
        /\ last'.op = "get_sheet_names") =>
          last.name \in last'.arg]_vars

\* the places of a call where the thread is about to take the lock
AcquirePcs == {"idle", "get_sheet_data", "cache_sheet_data", "save_cache"}

C39_HandlerConnectedOnceAfterLoad ==
    /\ last.op = "load" => connections = 1
    /\ last.op = "edit" => last.src = 1
====
